---- MODULE Spec2Model ----
(***************************************************************************)
(* Model of the BASH Workbench index / tree / query engine.                *)
(*                                                                         *)
(* The uniform model (bash_workbench/workbench.py, datasets.py,            *)
(* dataset.py) is the session that a Workbench object holds: the folder    *)
(* index records and the registry directory data/ on disk, and the         *)
(* Datasets collection in memory.                                          *)
(* The typed model (bash_workbench/utils/) is held in the variable typed,  *)
(* further down.                                                           *)
(*                                                                         *)
(* A text is a sequence of one-character strings, a path is a sequence of  *)
(* path components (texts), a uuid is a positive integer.                   *)
(***************************************************************************)
EXTENDS Integers, Sequences, FiniteSets, TLC

\* ------------------------------------------------------------------------
\* Bounds

\* number of operations of one behaviour (also the clock of the timestamps)
MaxSteps == 4

\* longest list of active filters
MaxFilters == 2

\* ------------------------------------------------------------------------
\* Texts

\* Python `sub in s` for strings
Contains(sub, s) ==
    \E i \in 0..(Len(s) - Len(sub)) : SubSeq(s, i + 1, i + Len(sub)) = sub

\* Python `s.endswith(c)` for a one-character c
EndsWith(s, c) == Len(s) > 0 /\ s[Len(s)] = c

\* index of the first occurrence of the character c in s (0: none)
FirstIndex(s, c) ==
    IF \E i \in 1..Len(s) : s[i] = c
    THEN CHOOSE i \in 1..Len(s) : s[i] = c /\ \A j \in 1..(i - 1) : s[j] # c
    ELSE 0

\* Python `s.split("=", 1)` when "=" occurs in s
SplitKey(s) == SubSeq(s, 1, FirstIndex(s, "=") - 1)
SplitValue(s) == SubSeq(s, FirstIndex(s, "=") + 1, Len(s))

\* ------------------------------------------------------------------------
\* The folders on disk

NameX == <<"x">>
NameAB == <<"a", "b">>
NameB == <<"b">>
NameC == <<"c">>
NameL == <<"l">>
NameF == <<"f">>
NameG == <<"g">>

\* /x, /x/ab, /x/ab/b and /x/c are directories
PathX == <<NameX>>
PathXAB == <<NameX, NameAB>>
PathXABB == <<NameX, NameAB, NameB>>
PathXC == <<NameX, NameC>>
Dirs == {PathX, PathXAB, PathXABB, PathXC}

\* /x/b and /x/c/b, two more folders named b on the disk of the typed
\* variant
PathXB == <<NameX, NameB>>
PathXCB == <<NameX, NameC, NameB>>
TypedDirs == Dirs \cup {PathXB, PathXCB}

\* /d is data/, the registry directory of the Workbench
NameD == <<"d">>
PathData == <<NameD>>
Folders == Dirs \cup {PathData}

\* /f is a regular file, /g does not exist
FilePath == <<NameF>>
MissingPath == <<NameG>>

\* symbolic links a user may have put inside the folders
NoLinks == {}
CycleLinks == {[dir |-> PathXABB, name |-> NameL, target |-> PathX]}
DiamondLinks == {[dir |-> PathXC, name |-> NameL, target |-> PathXAB]}

\* os.path.dirname and the last path component (rsplit("/", 1)[-1])
Dirname(p) == SubSeq(p, 1, Len(p) - 1)
Basename(p) == p[Len(p)]

\* ------------------------------------------------------------------------
\* Values

NoUuid == 0
NoText == <<>>
NoPath == <<>>
NoErr == ""

\* the absent index record (Dataset.index is None, no index.json)
NoIndex ==
    [uuid |-> NoUuid, indexed_at |-> 0, name |-> NoText, description |-> NoText,
     tags |-> {}, derived |-> FALSE, path |-> NoPath, children |-> {},
     parent |-> NoUuid, setup_at |-> 0, tool |-> NoText, launcher |-> NoText,
     tool_repo |-> NoText, launcher_repo |-> NoText]

EmptyMap == [k \in {} |-> NoUuid]

Put(f, k, v) == [x \in (DOMAIN f) \cup {k} |-> IF x = k THEN v ELSE f[x]]
Drop(f, k) == [x \in (DOMAIN f) \ {k} |-> f[x]]
Get(f, k, d) == IF k \in DOMAIN f THEN f[k] ELSE d

\* dict.get(key) on a tag map kept as a set of <<key, value>> pairs
TagGet(tags, key) ==
    IF \E t \in tags : t[1] = key
    THEN (CHOOSE t \in tags : t[1] = key)[2]
    ELSE NoText
TagSet(tags, key, value) == {t \in tags : t[1] # key} \cup {<<key, value>>}
TagDel(tags, key) == {t \in tags : t[1] # key}

\* inputs of the operations
\* the folders whose attributes and tags the session changes
ChangedDirs == {PathXABB, PathXC}
TagKeys == {<<"k">>}
TagValues == {<<"v">>, <<"w">>}
NewNames == {<<"b">>}
NewDescriptions == {<<"a">>}
FilterInputs ==
    {[field |-> "name", value |-> <<"b">>],
     [field |-> "description", value |-> <<"a">>],
     [field |-> "tag", value |-> <<"k", "=", "v">>],
     [field |-> "tag", value |-> <<"k", "v">>],
     [field |-> "tag", value |-> <<"k", "=">>]}

\* ------------------------------------------------------------------------
\* Tools, launchers and their parameters

\* a parameter value: a string, or a list of strings (None: NoValue)
Scalar(t) == [none |-> FALSE, list |-> FALSE, items |-> <<t>>]
List(s) == [none |-> FALSE, list |-> TRUE, items |-> s]
NoValue == [none |-> TRUE, list |-> FALSE, items |-> <<>>]

\* one entry of "args" in an asset's config.json
Arg(key, required, default, wb_env) ==
    [key |-> key, required |-> required, default |-> default,
     wb_env |-> wb_env, wb_sep |-> <<" ">>]

\* config.json of an asset folder (NoConfig: no such file); valid: it holds
\* the members "name", "description" and "args" that validate_config wants
NoConfig == [present |-> FALSE, valid |-> FALSE, args |-> <<>>]
Config(args) == [present |-> TRUE, valid |-> TRUE, args |-> args]
BadConfig == [present |-> TRUE, valid |-> FALSE, args |-> <<>>]

\* the tool t of the repository r: a required argument with a default and
\* an optional argument without one; the launcher l: a required argument
\* without a default
ToolArgs ==
    <<Arg("a", TRUE, Scalar(<<"d">>), "A"), Arg("b", FALSE, NoValue, "")>>
LauncherArgs == <<Arg("q", TRUE, NoValue, "Q")>>

\* an asset folder REPO/._wb/KIND/NAME: config.json and run.sh
AssetFolder(config, script) == [config |-> config, script |-> script]

NameR == <<"r">>
NameT == <<"t">>
NameZ == <<"z">>

\* repositories/ holds the repository r with the tool t and the launcher l
GoodRepos ==
    (NameR :>
        [complete |-> TRUE,
         tool |-> (NameT :> AssetFolder(Config(ToolArgs), TRUE)),
         launcher |-> (NameL :> AssetFolder(Config(LauncherArgs), TRUE))])

\* a file of parameters (params.json, params/KIND/ASSET/NAME.json)
NoParams == [exists |-> FALSE, map |-> EmptyMap]
Params(m) == [exists |-> TRUE, map |-> m]

\* the env script of an asset (a sequence of lines)
NoEnv == [exists |-> FALSE, lines |-> <<>>]

\* DATASET/._wb/KIND: the copied config.json and run.sh, params.json and env
NoAsset ==
    [config |-> NoConfig, script |-> FALSE, params |-> NoParams, env |-> NoEnv]
NoAssets == [p \in Dirs |-> [tool |-> NoAsset, launcher |-> NoAsset]]

AssetTypes == {"tool", "launcher"}

\* inputs of the asset and parameter operations
SetupDirs == {PathXC}
ToolNames == {<<"r", "/", "t">>, NameZ}
LauncherNames == {NameL}
Kwargs ==
    {EmptyMap,
     ("b" :> Scalar(<<"w">>)),
     ("a" :> List(<<(<<"v">>), (<<"w">>)>>)),
     ("q" :> Scalar(<<"v">>))}
SavedNames == {<<"n">>, <<"n", "/">>}

\* ------------------------------------------------------------------------
\* JSON files (FileLib.write_json: json.dump, FileLib.read_json: json.load)

\* a string that leaves its characters as they are
json_escape_none(s) == s

\* json.dump of the characters of a string: a backslash before each quote
\* and each backslash
RECURSIVE json_escape(_)
json_escape(s) ==
    IF s = <<>>
    THEN <<>>
    ELSE (IF Head(s) \in {"\"", "\\"} THEN <<"\\", Head(s)>> ELSE <<Head(s)>>)
            \o json_escape(Tail(s))

\* json.load of the characters between the quotes
RECURSIVE json_unescape(_)
json_unescape(s) ==
    IF s = <<>>
    THEN <<>>
    ELSE IF Head(s) = "\\" /\ Len(s) > 1
    THEN <<s[2]>> \o json_unescape(SubSeq(s, 3, Len(s)))
    ELSE <<Head(s)>> \o json_unescape(Tail(s))

json_string(s) == <<"\"">> \o json_escape(s) \o <<"\"">>
python_string(j) == json_unescape(SubSeq(j, 2, Len(j) - 1))

\* a string kept whole in the model (a uuid, a timestamp, a path)
json_atom(x) == <<"\"", x, "\"">>
python_atom(j) == j[2]

json_null == <<"null">>

AtomKeys == {"uuid", "indexed_at", "setup_at", "path"}
TextKeys ==
    {"name", "description", "tool", "launcher", "tool_repo", "launcher_repo"}

\* the keys of the dict that the record ix stands for: create_index makes
\* the first four, set_tag "tags", Datasets.add the derived three,
\* setup_dataset the rest
PresentKeys(ix) ==
    {"uuid", "indexed_at", "name", "description"}
        \cup (IF ix.tags # {} THEN {"tags"} ELSE {})
        \cup (IF ix.derived THEN {"path", "children", "parent"} ELSE {})
        \cup (IF ix.setup_at # 0 THEN {"setup_at"} ELSE {})
        \cup {k \in TextKeys \ {"name", "description"} : ix[k] # NoText}

\* json.dump of one member
json_value(k, v) ==
    IF k \in AtomKeys THEN json_atom(v)
    ELSE IF k \in TextKeys THEN json_string(v)
    ELSE IF k = "tags"
    THEN {<<json_string(t[1]), json_string(t[2])>> : t \in v}
    ELSE IF k = "children" THEN {json_atom(c) : c \in v}
    ELSE IF v = NoUuid THEN json_null ELSE json_atom(v)

\* json.load of one member
python_value(k, j) ==
    IF k \in AtomKeys THEN python_atom(j)
    ELSE IF k \in TextKeys THEN python_string(j)
    ELSE IF k = "tags"
    THEN {<<python_string(t[1]), python_string(t[2])>> : t \in j}
    ELSE IF k = "children" THEN {python_atom(c) : c \in j}
    ELSE IF Len(j) = 1 THEN NoUuid ELSE python_atom(j)

\* json.dump(index): the document, member name -> JSON value
json_dump(ix) == [k \in PresentKeys(ix) |-> json_value(k, ix[k])]

\* json.load: the dict of the document, as a record
json_load(doc) ==
    [k \in DOMAIN NoIndex |->
        IF k = "derived" THEN "path" \in DOMAIN doc
        ELSE IF k \in DOMAIN doc THEN python_value(k, doc[k])
        ELSE NoIndex[k]]

\* json.dump of a dict of parameters and json.load of it
json_dump_params(m) == [k \in DOMAIN m |-> json_string(m[k])]
json_load_params(doc) == [k \in DOMAIN doc |-> python_string(doc[k])]

VARIABLES
    symlinks,        \* links inside the folders (fixed in a behaviour)
    wb,              \* wb[p]: the folder p holds a ._wb/ subfolder
    index,           \* index[p]: content of p/._wb/index.json (NoIndex: no file)
    registry,        \* data/: entry name (uuid) -> path written in the file
    nextUuid,        \* the next uuid that uuid4() returns
    session,         \* "none": no Workbench object, "up": constructed
    datasets,        \* Datasets.datasets: uuid -> index dict
    parent_dict,     \* Datasets.parent_dict: child uuid -> parent uuid
    passes_filter,   \* Datasets.passes_filter: uuid -> bool
    filters,         \* Datasets.filters: list of (field, value)
    filtered_uuids,  \* Datasets.filtered_uuids of the last query
    hung,            \* the process is inside a loop that never ends
    last,            \* the last operation and its outcome
    steps,           \* operations so far
    typed,           \* the disk of the typed variant (utils/) and its last call
    repos,           \* repositories/: repository folder name -> its content
    assets,          \* assets[p][kind]: content of p/._wb/tool, p/._wb/launcher
    saved,           \* params/: <<kind, asset name, saved name>> -> params file
    menu,            \* a ParamsMenu: the argument, its value and the verdict
    result,          \* what the last asset or parameter operation returned
    racers           \* processes that index one folder at the same time

vars == <<symlinks, wb, index, registry, nextUuid, session, datasets,
          parent_dict, passes_filter, filters, filtered_uuids, hung, last,
          steps, typed, repos, assets, saved, menu, result, racers>>

diskVars == <<wb, index, registry, nextUuid, assets, saved>>
memVars == <<datasets, parent_dict, passes_filter, filters>>
uniformVars == <<symlinks, wb, index, registry, nextUuid, session, datasets,
                 parent_dict, passes_filter, filters, filtered_uuids, hung,
                 last, repos, assets, saved, menu, result, racers>>
uniformVars_but_menu ==
    <<symlinks, wb, index, registry, nextUuid, session, datasets, parent_dict,
      passes_filter, filters, filtered_uuids, hung, last, repos, assets, saved,
      result, racers>>

\* ------------------------------------------------------------------------
\* The filesystem

\* paths of the links inside the folders
LinkPaths(links) == {Append(l.dir, l.name) : l \in links}

\* FileLib.abs_path: a link is resolved to its target
abs_path(links, p) ==
    IF p \in LinkPaths(links)
    THEN (CHOOSE l \in links : Append(l.dir, l.name) = p).target
    ELSE p

\* FileLib.exists and FileLib.isdir (both follow links)
exists(links, p) == p \in Folders \cup {FilePath} \cup LinkPaths(links)
isdir(links, p) == abs_path(links, p) \in Folders

\* FileLib.listdir(p) without ._wb: the paths of the entries of the folder p
\* (the entries of data/ are regular files, none is listed here)
listdir(links, p) ==
    {q \in Dirs : Len(q) = Len(p) + 1 /\ Dirname(q) = p}
        \cup {q \in LinkPaths(links) : Dirname(q) = p}

\* ------------------------------------------------------------------------
\* The world that one operation works on: the disk, the Datasets object and
\* the exception raised so far (NoErr: none)

World ==
    [links |-> symlinks, wb |-> wb, index |-> index, registry |-> registry,
     nextUuid |-> nextUuid, datasets |-> datasets, parent_dict |-> parent_dict,
     passes_filter |-> passes_filter, filters |-> filters, now |-> steps + 1,
     err |-> NoErr, repos |-> repos, assets |-> assets, saved |-> saved]

Raise(w, e) == [w EXCEPT !.err = e]

\* Dataset.__init__ / read_contents / read_index: the Dataset object of a
\* directory (FolderHierarchyBase.check_folders sets `complete`)
Dataset(w, p) ==
    LET q == abs_path(w.links, p) IN
    [base_path |-> p,
     complete |-> w.wb[q],
     index |-> IF w.wb[q] THEN w.index[q] ELSE NoIndex]

\* Dataset.write_index -> Dataset.write_json: an existing file is replaced
\* only with overwrite; index[q] is what read_index() then finds in the file
write_index(w, ds, overwrite) ==
    LET q == abs_path(w.links, ds.base_path) IN
    IF w.wb[q] /\ w.index[q] # NoIndex /\ ~overwrite
    THEN Raise(w, "FileExists")
    ELSE [w EXCEPT !.index[q] = json_load(json_dump(ds.index))]

\* a generator that returns the value it returned last
uuid4_repeat(w) == IF w.nextUuid > 1 THEN w.nextUuid - 1 ELSE w.nextUuid

\* uuid.uuid4(): a value never returned before
uuid4(w) == w.nextUuid

\* Dataset.create_index: the index dict made, write_index() puts it on disk
created_index(w, ds1) == [w |-> write_index(w, ds1, FALSE), ds |-> ds1]

\* Dataset.create_index
create_index(w, ds) ==
    IF ds.index # NoIndex
    THEN [w |-> Raise(w, "AlreadyIndexed"), ds |-> ds]
    ELSE
        created_index(
            [w EXCEPT !.wb[abs_path(w.links, ds.base_path)] = TRUE,
                      !.nextUuid = @ + 1],
            [ds EXCEPT !.index =
                [NoIndex EXCEPT !.uuid = uuid4(w), !.indexed_at = w.now,
                                !.name = Basename(ds.base_path)]])

\* Dataset.children: uuids of the indexed folders directly inside
children(w, ds) ==
    {Dataset(w, sub).index.uuid :
        sub \in {s \in listdir(w.links, abs_path(w.links, ds.base_path)) :
                    isdir(w.links, s) /\ Dataset(w, s).index # NoIndex}}

\* ------------------------------------------------------------------------
\* Filters

\* the asserts of Datasets._filter_one on a tag query
TagQueryOk(value) == Contains(<<"=">>, value) /\ ~EndsWith(value, "=")

\* the test of Datasets._filter_one on one index dict
Matches(info, f) ==
    IF f.field = "tag"
    THEN TagGet(info.tags, SplitKey(f.value)) = SplitValue(f.value)
    ELSE IF f.field = "name"
    THEN Contains(f.value, info.name)
    ELSE Contains(f.value, info.description)

\* Datasets._filter_one on a dataset whose mark is `pass`
\* (a mark of False is kept without looking at the query)
filter_one(info, pass, f) ==
    IF ~pass
    THEN [pass |-> FALSE, err |-> NoErr]
    ELSE IF f.field = "tag" /\ ~TagQueryOk(f.value)
    THEN [pass |-> pass, err |-> "InvalidQuery"]
    ELSE [pass |-> Matches(info, f), err |-> NoErr]

\* the loop over self.filters at the end of Datasets.add
RECURSIVE filter_each(_, _, _)
filter_each(info, pass, fs) ==
    IF fs = <<>>
    THEN [pass |-> pass, err |-> NoErr]
    ELSE
        LET r == filter_one(info, pass, Head(fs)) IN
        IF r.err # NoErr THEN r ELSE filter_each(info, r.pass, Tail(fs))

\* Datasets._filter_all: the first dataset that raises stops the loop; the
\* datasets before it are marked False already and keep their mark
filter_all(w, f) ==
    LET r == [u \in DOMAIN w.datasets |->
                 filter_one(w.datasets[u], w.passes_filter[u], f)]
    IN
    IF \E u \in DOMAIN r : r[u].err # NoErr
    THEN Raise(w, "InvalidQuery")
    ELSE [w EXCEPT !.passes_filter = [u \in DOMAIN r |-> r[u].pass]]

\* Datasets._apply_filters
RECURSIVE apply_filters(_, _)
apply_filters(w, fs) ==
    IF fs = <<>> \/ w.err # NoErr
    THEN w
    ELSE apply_filters(filter_all(w, Head(fs)), Tail(fs))

\* Datasets._reset_filter_all
reset_filter_all(w) ==
    [w EXCEPT !.passes_filter = [u \in DOMAIN w.datasets |-> TRUE]]

\* Datasets.add_filter
add_filter(w, f) == filter_all([w EXCEPT !.filters = Append(@, f)], f)

\* Datasets.remove_filter
remove_filter(w, f) ==
    LET w1 == [w EXCEPT !.filters = SelectSeq(@, LAMBDA g : g # f)]
    IN apply_filters(reset_filter_all(w1), w1.filters)

\* ------------------------------------------------------------------------
\* Datasets.add and Datasets.from_path

\* the end of Datasets.add: the dict is stored and marked by every filter
\* of self.filters
add_marked(w, ds, u, pd, patched, info, r) ==
    [w |-> [w EXCEPT !.parent_dict = pd,
                     !.datasets = Put(patched, u, info),
                     !.passes_filter = Put(@, u, r.pass),
                     !.err = r.err],
     ds |-> [ds EXCEPT !.index = info]]

\* the derived keys of the index dict: path, children, parent
add_info(w, ds, u, pd, patched, info) ==
    add_marked(w, ds, u, pd, patched, info, filter_each(info, TRUE, w.filters))

\* parent_dict of the children, and the parent key of the children that
\* are in self.datasets already
add_parents(w, ds, u, kids, pd) ==
    add_info(w, ds, u, pd,
             [k \in DOMAIN w.datasets |->
                 IF k \in kids
                 THEN [w.datasets[k] EXCEPT !.parent = u]
                 ELSE w.datasets[k]],
             [ds.index EXCEPT !.path = ds.base_path,
                              !.children = kids,
                              !.parent = Get(pd, u, NoUuid),
                              !.derived = TRUE])

add_children(w, ds, u, kids) ==
    add_parents(w, ds, u, kids,
                [k \in (DOMAIN w.parent_dict) \cup kids |->
                    IF k \in kids THEN u ELSE w.parent_dict[k]])

\* Datasets.add once the Dataset holds an index
add_indexed(c) ==
    IF c.w.err # NoErr
    THEN c
    ELSE add_children(c.w, c.ds, c.ds.index.uuid, children(c.w, c.ds))

add(w0, ds0) ==
    add_indexed(IF ds0.index = NoIndex
                THEN create_index(w0, ds0)
                ELSE [w |-> w0, ds |-> ds0])

\* Datasets.path_dict is keyed by uuid (self.path_dict[uuid] = base_path);
\* from_path looks a path up among these keys
path_dict(w) == [u \in DOMAIN w.datasets |-> w.datasets[u].path]

\* the string of an absolute path (it starts with "/") is the string of no
\* uuid
SameKey(u, p) == FALSE

\* Datasets.from_path for a path that is no key of path_dict
from_dataset(w, ds) == IF ds.complete THEN add(w, ds) ELSE [w |-> w, ds |-> ds]

from_abs_path(w, p) ==
    IF \E u \in DOMAIN path_dict(w) : SameKey(u, p)
    THEN [w |-> w,
          ds |-> Dataset(w, path_dict(w)[CHOOSE u \in DOMAIN path_dict(w) :
                                             SameKey(u, p)])]
    ELSE from_dataset(w, Dataset(w, p))

from_path(w, path) == from_abs_path(w, abs_path(w.links, path))

\* ------------------------------------------------------------------------
\* Workbench.index_folder

\* Workbench.add_to_home_tree: data/<uuid> holds the path
add_to_home_tree(w, ds, path) ==
    [w EXCEPT !.registry = Put(@, ds.index.uuid, abs_path(w.links, path))]

\* the end of index_folder: the reference in data/, then Datasets.add
index_finish(c, path) ==
    IF c.w.err # NoErr THEN c.w
    ELSE add(add_to_home_tree(c.w, c.ds, path), c.ds).w

\* index_folder once from_path has returned: "Creating index" or
\* "Index already exists"
index_found(fp, path) ==
    IF fp.w.err # NoErr THEN fp.w
    ELSE IF fp.ds.index = NoIndex
    THEN index_finish(create_index(fp.w, fp.ds), path)
    ELSE index_finish(fp, path)

\* an index operation that refuses a folder that holds an index record
index_found_strict(fp, path) ==
    IF fp.w.err # NoErr THEN fp.w
    ELSE IF fp.ds.index = NoIndex
    THEN index_finish(create_index(fp.w, fp.ds), path)
    ELSE Raise(fp.w, "AlreadyIndexed")

index_folder_strict(w0, path) == index_found_strict(from_path(w0, path), path)

index_folder(w0, path) == index_found(from_path(w0, path), path)

\* ------------------------------------------------------------------------
\* Attributes and tags

\* the index dict of a Dataset made by from_path is the dict that
\* Datasets.add stored in self.datasets: an assignment shows in both
shared(w, ds) ==
    IF ds.index.uuid \in DOMAIN w.datasets
    THEN [w EXCEPT !.datasets[ds.index.uuid] = ds.index]
    ELSE w

\* a setter that stamps the record with the time of the change
set_attribute_stamped(w, ds, key, value) ==
    IF ds.index = NoIndex
    THEN Raise(w, "TypeError")
    ELSE
        LET ds1 == [ds EXCEPT !.index[key] = value, !.index.indexed_at = w.now]
        IN write_index(shared(w, ds1), ds1, TRUE)

\* Dataset.set_attribute (self.index[key] = value fails on None)
set_attribute(w, ds, key, value) ==
    IF ds.index = NoIndex
    THEN Raise(w, "TypeError")
    ELSE
        LET ds1 == [ds EXCEPT !.index[key] = value]
        IN write_index(shared(w, ds1), ds1, TRUE)

\* Dataset.set_tag
set_tag(w, ds, key, value) ==
    IF ds.index = NoIndex
    THEN Raise(w, "TypeError")
    ELSE
        LET ds1 == [ds EXCEPT !.index.tags = TagSet(@, key, value)]
        IN write_index(shared(w, ds1), ds1, TRUE)

\* Dataset.delete_tag: the index is written only when the key was there
delete_tag(w, ds, key) ==
    IF ds.index = NoIndex
    THEN Raise(w, "TypeError")
    ELSE IF TagGet(ds.index.tags, key) = NoText
    THEN w
    ELSE
        LET ds1 == [ds EXCEPT !.index.tags = TagDel(@, key)]
        IN write_index(shared(w, ds1), ds1, TRUE)

\* ds.set_attribute, ds.set_tag, ds.delete_tag on what from_path returned
set_attribute_found(fp, key, value) ==
    IF fp.w.err # NoErr THEN fp.w ELSE set_attribute(fp.w, fp.ds, key, value)

set_tag_found(fp, key, value) ==
    IF fp.w.err # NoErr THEN fp.w ELSE set_tag(fp.w, fp.ds, key, value)

delete_tag_found(fp, key) ==
    IF fp.w.err # NoErr THEN fp.w ELSE delete_tag(fp.w, fp.ds, key)

\* Workbench.change_dataset_attribute, update_tag, delete_tag
change_dataset_attribute(w, path, attribute, value) ==
    set_attribute_found(from_path(w, path), attribute, value)

update_tag(w, path, key, value) == set_tag_found(from_path(w, path), key, value)

wb_delete_tag(w, path, key) == delete_tag_found(from_path(w, path), key)

\* ------------------------------------------------------------------------
\* The catalog of assets: Workbench.setup_repositories

\* Asset.__init__: check_folders() marks the asset incomplete when
\* config.json or run.sh is missing, and read_contents() runs all the same
Asset_complete(f) == f.config.present /\ f.script

\* Asset.read_contents: read_json asserts that config.json exists and
\* validate_config asserts its members
Asset_raises(f) == ~f.config.present \/ ~f.config.valid

\* Repository.read_assets: one Asset per entry of ._wb/<kind>, the complete
\* ones kept under their folder name
read_assets(repo, kind) ==
    IF \E n \in DOMAIN repo[kind] : Asset_raises(repo[kind][n])
    THEN [err |-> "AssertionError", assets |-> EmptyMap]
    ELSE [err |-> NoErr,
          assets |-> [n \in {m \in DOMAIN repo[kind] :
                                Asset_complete(repo[kind][m])}
                        |-> repo[kind][n]]]

\* Repository.read_contents: the assets are read only below ._wb/
Repository(repo) ==
    IF repo.complete
    THEN [complete |-> TRUE,
          err |-> IF read_assets(repo, "tool").err # NoErr
                  THEN read_assets(repo, "tool").err
                  ELSE read_assets(repo, "launcher").err,
          tool |-> read_assets(repo, "tool").assets,
          launcher |-> read_assets(repo, "launcher").assets]
    ELSE [complete |-> FALSE, err |-> NoErr, tool |-> EmptyMap,
          launcher |-> EmptyMap]

\* Workbench.setup_repositories: a Repository for every entry of
\* repositories/
setup_repositories(rs) ==
    [err |-> IF \E r \in DOMAIN rs : Repository(rs[r]).err # NoErr
             THEN "AssertionError" ELSE NoErr,
     repositories |-> [r \in DOMAIN rs |-> Repository(rs[r])]]

\* Workbench._list_assets: "<repository>/<asset>" of the complete assets of
\* the complete repositories
_list_assets(repositories, kind) ==
    UNION {{r \o <<"/">> \o n :
                n \in {m \in DOMAIN repositories[r][kind] :
                            Asset_complete(repositories[r][kind][m])}} :
           r \in {x \in DOMAIN repositories : repositories[x].complete}}

\* ------------------------------------------------------------------------
\* Workbench.asset

SlashCount(s) == Cardinality({i \in 1..Len(s) : s[i] = "/"})

\* s.split("/")[-1]
RECURSIVE LastPart(_)
LastPart(s) ==
    IF FirstIndex(s, "/") = 0
    THEN s
    ELSE LastPart(SubSeq(s, FirstIndex(s, "/") + 1, Len(s)))

NoAssetFound == [err |-> NoErr, repo |-> NoText, name |-> NoText,
                 folder |-> AssetFolder(NoConfig, FALSE)]

Found(repositories, kind, r, n) ==
    [err |-> NoErr, repo |-> r, name |-> n, folder |-> repositories[r][kind][n]]

matching_repos(repositories, kind, n) ==
    {r \in DOMAIN repositories : n \in DOMAIN repositories[r][kind]}

\* the asset named "<repository>/<asset>"
asset_of_repo(repositories, kind, r, n) ==
    IF r \notin DOMAIN repositories
    THEN [NoAssetFound EXCEPT !.err = "InvalidRepository"]
    ELSE IF ~repositories[r].complete
    THEN [NoAssetFound EXCEPT !.err = "NoAssetsOfType"]
    ELSE IF n \notin DOMAIN repositories[r][kind]
    THEN [NoAssetFound EXCEPT !.err = "NoSuchAsset"]
    ELSE Found(repositories, kind, r, n)

asset_in(repositories, kind, asset_name) ==
    IF ~Contains(<<"/">>, asset_name)
    THEN
        IF matching_repos(repositories, kind, asset_name) = {}
        THEN [NoAssetFound EXCEPT !.err = "NoSuchAsset"]
        ELSE IF Cardinality(matching_repos(repositories, kind, asset_name)) # 1
        THEN [NoAssetFound EXCEPT !.err = "AmbiguousAsset"]
        ELSE Found(repositories, kind,
                   CHOOSE r \in matching_repos(repositories, kind, asset_name) :
                        TRUE,
                   asset_name)
    ELSE IF SlashCount(asset_name) # 1
    THEN [NoAssetFound EXCEPT !.err = "BadAssetName"]
    ELSE asset_of_repo(repositories, kind,
                       SubSeq(asset_name, 1, FirstIndex(asset_name, "/") - 1),
                       LastPart(asset_name))

asset(w, kind, asset_name) ==
    asset_in(setup_repositories(w.repos).repositories, kind, asset_name)

\* ------------------------------------------------------------------------
\* Workbench.setup_dataset

\* ds.set_attribute, and the Dataset object after it
set_attribute_on(c, key, value) ==
    IF c.w.err # NoErr THEN c
    ELSE [w |-> set_attribute(c.w, c.ds, key, value),
          ds |-> IF c.ds.index = NoIndex THEN c.ds
                 ELSE [c.ds EXCEPT !.index[key] = value]]

\* Dataset.setup_asset_folder: mkdir -p ._wb/<kind>
setup_asset_folder(w, ds) ==
    [w EXCEPT !.wb[abs_path(w.links, ds.base_path)] = TRUE]

\* Asset.copy_to_dataset: config.json and run.sh go to ._wb/<kind>/ (an
\* asset folder of a dataset holds both or neither), then the repository
\* is recorded in the index
copy_to_dataset(c, kind, a, overwrite) ==
    IF ~overwrite
        /\ (c.w.assets[abs_path(c.w.links, c.ds.base_path)][kind].config.present
            \/ c.w.assets[abs_path(c.w.links, c.ds.base_path)][kind].script)
    THEN [w |-> Raise(setup_asset_folder(c.w, c.ds), "FileExists"), ds |-> c.ds]
    ELSE set_attribute_on(
            [w |-> [setup_asset_folder(c.w, c.ds) EXCEPT
                        !.assets[abs_path(c.w.links, c.ds.base_path)][kind] =
                            [@ EXCEPT !.config = a.folder.config,
                                      !.script = a.folder.script]],
             ds |-> c.ds],
            IF kind = "tool" THEN "tool_repo" ELSE "launcher_repo",
            a.repo)

copy_found(c, kind, a, overwrite) ==
    IF a.err # NoErr
    THEN [w |-> Raise(c.w, a.err), ds |-> c.ds]
    ELSE copy_to_dataset(c, kind, a, overwrite)

\* self.asset(...) and asset.copy_to_dataset(ds, overwrite)
setup_copied(c, kind, asset_name, overwrite) ==
    IF c.w.err # NoErr THEN c
    ELSE copy_found(c, kind, asset(c.w, kind, asset_name), overwrite)

\* "if ds.index is None: self.datasets.add(ds)"
setup_indexed(fp) ==
    IF fp.w.err # NoErr \/ fp.ds.index # NoIndex THEN fp
    ELSE add(fp.w, fp.ds)

\* the three attributes set at the end
setup_recorded(c, tool, launcher) ==
    set_attribute_on(
        set_attribute_on(
            set_attribute_on(c, "setup_at", c.w.now),
            "tool", asset(c.w, "tool", tool).name),
        "launcher", asset(c.w, "launcher", launcher).name).w

setup_dataset(w, path, tool, launcher, overwrite) ==
    setup_recorded(
        setup_copied(
            setup_copied(setup_indexed(from_path(w, path)),
                         "tool", tool, overwrite),
            "launcher", launcher, overwrite),
        tool, launcher)

\* ------------------------------------------------------------------------
\* Parameters of the tool and the launcher of a dataset

\* sep.join(items)
RECURSIVE Join(_, _)
Join(items, sep) ==
    IF items = <<>> THEN <<>>
    ELSE IF Len(items) = 1 THEN items[1]
    ELSE items[1] \o sep \o Join(Tail(items), sep)

\* env[name] = value on a dict that keeps the order of insertion
EnvSet(env, name, value) ==
    IF \E i \in 1..Len(env) : env[i][1] = name
    THEN [i \in 1..Len(env) |->
            IF env[i][1] = name THEN <<name, value>> ELSE env[i]]
    ELSE Append(env, <<name, value>>)

\* the value of one argument as a string: a list is joined with wb_sep
param_text(a, v) == IF v.list THEN Join(v.items, a.wb_sep) ELSE v.items[1]

\* params[name] = value and env[wb_env] = value
with_param(acc, a, text) ==
    [acc EXCEPT !.params = Put(@, a.key, text),
                !.env = IF a.wb_env # "" THEN EnvSet(@, a.wb_env, text) ELSE @]

\* one round of the loop over asset_config["args"]: the assertion on a
\* required argument comes first, then the default, then the value
RECURSIVE collect_params(_, _, _)
collect_param(a, given, rest, kwargs, acc) ==
    IF a.required /\ given.none
    THEN [acc EXCEPT !.err = "MustProvide"]
    ELSE IF given.none /\ a.default.none
    THEN collect_params(rest, kwargs, acc)
    ELSE collect_params(rest, kwargs,
            with_param(acc, a,
                       param_text(a, IF given.none THEN a.default ELSE given)))

collect_params(args, kwargs, acc) ==
    IF args = <<>> THEN acc
    ELSE collect_param(Head(args), Get(kwargs, Head(args).key, NoValue),
                       Tail(args), kwargs, acc)

\* a write of params.json that replaces the file whatever overwrite says
write_asset_params_always(w, q, kind, params, overwrite) ==
    [w EXCEPT !.wb[q] = TRUE,
              !.assets[q][kind].params =
                    Params(json_load_params(json_dump_params(params)))]

\* Dataset.write_asset_params -> write_json: params.json of the asset
write_asset_params(w, q, kind, params, overwrite) ==
    IF w.assets[q][kind].params.exists /\ ~overwrite
    THEN Raise([w EXCEPT !.wb[q] = TRUE], "FileExists")
    ELSE [w EXCEPT !.wb[q] = TRUE,
                   !.assets[q][kind].params =
                        Params(json_load_params(json_dump_params(params)))]

\* the lines of the env script
env_script(env) ==
    <<(<<"#!/bin/bash">>), <<>>, (<<"set -e">>), <<>>, (<<"####">>)>>
        \o [i \in 1..Len(env) |->
                <<"export ", env[i][1], "='">> \o env[i][2] \o <<"'">>]

\* Dataset.write_asset_env -> write_text: the file env of the asset
write_asset_env(w, q, kind, env, overwrite) ==
    IF w.err # NoErr THEN w
    ELSE IF w.assets[q][kind].env.exists /\ ~overwrite
    THEN Raise([w EXCEPT !.wb[q] = TRUE], "FileExists")
    ELSE [w EXCEPT !.wb[q] = TRUE,
                   !.assets[q][kind].env =
                        [exists |-> TRUE, lines |-> env_script(env)]]

\* the end of _set_asset_params: both files are written, params.json first
write_collected(w, q, kind, acc, overwrite) ==
    IF acc.err # NoErr THEN Raise(w, acc.err)
    ELSE write_asset_env(write_asset_params(w, q, kind, acc.params, overwrite),
                         q, kind, acc.env, overwrite)

\* _set_asset_params on the Dataset that from_path returned
set_params_found(fp, q, kind, overwrite, kwargs) ==
    IF fp.w.err # NoErr THEN fp.w
    ELSE IF fp.ds.index = NoIndex THEN Raise(fp.w, "NotIndexed")
    ELSE IF fp.ds.index[kind] = NoText THEN Raise(fp.w, "NotSetUp")
    ELSE IF ~fp.w.assets[q][kind].config.present THEN Raise(fp.w, "NoConfig")
    ELSE write_collected(fp.w, q, kind,
            collect_params(
                fp.w.assets[q][kind].config.args, kwargs,
                [params |-> EmptyMap,
                 env |-> <<(<<(IF kind = "tool" THEN "TOOL_REPO"
                                ELSE "LAUNCHER_REPO"),
                              fp.ds.index[IF kind = "tool" THEN "tool_repo"
                                          ELSE "launcher_repo"]>>)>>,
                 err |-> NoErr]),
            overwrite)

\* the argument that the message of the failed assertion names
\* ("Must provide <param_name>"): the first required one without a value
must_provide(args, kwargs) ==
    args[CHOOSE i \in 1..Len(args) :
            /\ args[i].required /\ Get(kwargs, args[i].key, NoValue).none
            /\ \A j \in 1..(i - 1) :
                ~(args[j].required /\ Get(kwargs, args[j].key, NoValue).none)].key

\* what a failed call reports: the argument named by the exception
set_params_reported(w, args, kwargs) ==
    IF w.err = "MustProvide"
    THEN {<<must_provide(args, kwargs), "missing">>}
    ELSE {}

\* Workbench._set_asset_params (set_tool_params, set_launcher_params)
_set_asset_params(w, path, kind, overwrite, kwargs) ==
    set_params_found(from_path(w, path), abs_path(w.links, path), kind,
                     overwrite, kwargs)

\* ------------------------------------------------------------------------
\* Saved sets of parameters: params/<kind>/<asset>/<name>.json

Suffix == <<".", "j", "s", "o", "n">>

\* the characters for which str.isalnum() holds
Alnum ==
    {"a", "b", "c", "d", "k", "l", "m", "n", "q", "r", "t", "v", "w", "x",
     "z", "0", "1", "2", "3", "4", "5", "6", "7", "8", "9"}

Unmarked(c) == c \notin {"_", "-"}

\* Workbench.is_simple_name
is_simple_name(name) ==
    /\ SelectSeq(name, Unmarked) # <<>>
    /\ \A i \in 1..Len(name) : Unmarked(name[i]) => name[i] \in Alnum

\* Workbench._list_asset_params: the file names of the folder that end in
\* .json, without the suffix
_list_asset_params(w, kind, name) ==
    {SubSeq(k[3], 1, Len(k[3]) - Len(Suffix)) :
        k \in {x \in DOMAIN w.saved :
                /\ x[1] = kind
                /\ x[2] = LastPart(name)
                /\ Len(x[3]) >= Len(Suffix)
                /\ SubSeq(x[3], Len(x[3]) - Len(Suffix) + 1, Len(x[3])) = Suffix}}

\* a save that replaces the file whatever overwrite says
_write_asset_params_json_always(w, kind, asset_name, name, params, overwrite) ==
    [w EXCEPT !.saved =
        Put(@, <<kind, LastPart(asset_name), name \o Suffix>>,
            Params(json_load_params(json_dump_params(params))))]

\* Workbench._write_asset_params_json: the assertion on an existing file
\* names `msg` before it is assigned
_write_asset_params_json(w, kind, asset_name, name, params, overwrite) ==
    IF <<kind, LastPart(asset_name), name \o Suffix>> \in DOMAIN w.saved
        /\ ~overwrite
    THEN Raise(w, "UnboundLocalError")
    ELSE [w EXCEPT !.saved =
            Put(@, <<kind, LastPart(asset_name), name \o Suffix>>,
                Params(json_load_params(json_dump_params(params))))]

\* _save_asset_params on the Dataset that from_path returned
save_params_found(fp, q, kind, name, overwrite) ==
    IF fp.w.err # NoErr THEN fp.w
    ELSE IF fp.ds.index = NoIndex THEN Raise(fp.w, "NotIndexed")
    ELSE IF fp.ds.index[kind] = NoText THEN Raise(fp.w, "NotSetUp")
    ELSE IF ~is_simple_name(name) THEN Raise(fp.w, "NotSimpleName")
    ELSE IF ~fp.w.assets[q][kind].params.exists THEN Raise(fp.w, "NoParamsSet")
    ELSE _write_asset_params_json(fp.w, kind, fp.ds.index[kind], name,
                                  fp.w.assets[q][kind].params.map, overwrite)

\* Workbench._save_asset_params (save_tool_params, save_launcher_params)
_save_asset_params(w, path, kind, name, overwrite) ==
    save_params_found(from_path(w, path), abs_path(w.links, path), kind, name,
                      overwrite)

\* Workbench._read_asset_params: the name must be listed
_read_asset_params(w, asset_name, kind, params_name) ==
    IF params_name \notin _list_asset_params(w, kind, asset_name)
    THEN [err |-> "NotListed", params |-> NoParams]
    ELSE [err |-> NoErr,
          params |-> w.saved[<<kind, LastPart(asset_name),
                               params_name \o Suffix>>]]

\* Workbench._delete_asset_params: the name must be listed
_delete_asset_params(w, asset_name, kind, params_name) ==
    IF params_name \notin _list_asset_params(w, kind, asset_name)
    THEN Raise(w, "NotListed")
    ELSE [w EXCEPT !.saved =
            Drop(@, <<kind, LastPart(asset_name), params_name \o Suffix>>)]

\* ------------------------------------------------------------------------
\* Building the working set: Workbench.parse_reference, walk_home_tree and
\* Datasets.__init__

NoDataset == [base_path |-> NoPath, complete |-> FALSE, index |-> NoIndex]

\* the entry ._wb of data/, there once data/ itself holds an index record
WbEntry == NoUuid

\* os.listdir of data/
data_entries(w) ==
    (DOMAIN w.registry) \cup (IF w.wb[PathData] THEN {WbEntry} ELSE {})

\* a check of the reference that accepts any folder that holds an index
\* record, whatever its uuid
parse_reference_any(w, ds_uuid) ==
    IF ds_uuid = WbEntry
    THEN [found |-> FALSE, ds |-> NoDataset, err |-> "IsADirectoryError"]
    ELSE IF Len(w.registry[ds_uuid]) = 0 \/ ~isdir(w.links, w.registry[ds_uuid])
    THEN [found |-> FALSE, ds |-> NoDataset, err |-> NoErr]
    ELSE IF Dataset(w, w.registry[ds_uuid]).index = NoIndex
    THEN [found |-> FALSE, ds |-> NoDataset, err |-> NoErr]
    ELSE [found |-> TRUE, ds |-> Dataset(w, w.registry[ds_uuid]), err |-> NoErr]

\* open() of the entry ._wb, a directory, raises
parse_reference(w, ds_uuid) ==
    IF ds_uuid = WbEntry
    THEN [found |-> FALSE, ds |-> NoDataset, err |-> "IsADirectoryError"]
    ELSE
    LET ds_path == w.registry[ds_uuid] IN
    IF Len(ds_path) = 0 \/ ~exists(w.links, ds_path)
    THEN [found |-> FALSE, ds |-> NoDataset, err |-> NoErr]
    ELSE IF ~isdir(w.links, ds_path)
    THEN [found |-> FALSE, ds |-> NoDataset, err |-> "NotADirectory"]
    ELSE
        LET ds == Dataset(w, ds_path) IN
        IF ~ds.complete \/ ds.index = NoIndex
        THEN [found |-> FALSE, ds |-> NoDataset, err |-> NoErr]
        ELSE IF ds_uuid = ds.index.uuid
        THEN [found |-> TRUE, ds |-> ds, err |-> NoErr]
        ELSE [found |-> FALSE, ds |-> NoDataset, err |-> NoErr]

\* the orders in which listdir may return the entries of data/
RECURSIVE Orders(_)
Orders(S) ==
    IF S = {}
    THEN {<<>>}
    ELSE UNION {{<<x>> \o o : o \in Orders(S \ {x})} : x \in S}

\* the loop of Datasets.__init__ over walk_home_tree
RECURSIVE walk_home_tree(_, _)
walk_home_tree(w, order) ==
    IF order = <<>> \/ w.err # NoErr
    THEN w
    ELSE
        LET r == parse_reference(w, Head(order)) IN
        IF r.err # NoErr
        THEN Raise(w, r.err)
        ELSE IF ~r.found
        THEN walk_home_tree([w EXCEPT !.registry = Drop(@, Head(order))],
                            Tail(order))
        ELSE walk_home_tree(add(w, r.ds).w, Tail(order))

\* Datasets.__init__
new_datasets(w, order) ==
    walk_home_tree([w EXCEPT !.datasets = EmptyMap, !.parent_dict = EmptyMap,
                             !.passes_filter = EmptyMap, !.filters = <<>>],
                   order)

\* ------------------------------------------------------------------------
\* Queries

\* the while loop of Datasets._get_filtered_uuids from one uuid
RECURSIVE chain(_, _, _)
chain(ds, u, seen) ==
    IF u = NoUuid \/ u \in seen
    THEN seen
    ELSE chain(ds, ds[u].parent, seen \cup {u})

\* that loop comes back to a uuid it has left: it never ends
RECURSIVE loops(_, _, _)
loops(ds, u, seen) ==
    IF u = NoUuid
    THEN FALSE
    ELSE IF u \in seen
    THEN TRUE
    ELSE loops(ds, ds[u].parent, seen \cup {u})

passing_uuids(w) == {u \in DOMAIN w.passes_filter : w.passes_filter[u]}

\* a selection that leaves the parent chains out
get_filtered_uuids_flat(w, incl_anc) == passing_uuids(w)

\* Datasets._get_filtered_uuids
get_filtered_uuids(w, incl_anc) ==
    IF incl_anc
    THEN UNION {chain(w.datasets, u, {}) : u \in passing_uuids(w)}
    ELSE passing_uuids(w)

never_returns(w, incl_anc) ==
    incl_anc /\ \E u \in passing_uuids(w) : loops(w.datasets, u, {})

\* a query that leaves the children lists as they are
prune_none(w, keep) == w

\* Datasets.filtered: the children of the kept dicts are cut down in place
prune(w, keep) ==
    [w EXCEPT !.datasets =
        [u \in DOMAIN w.datasets |->
            IF u \in keep /\ w.datasets[u].children # {}
            THEN [w.datasets[u] EXCEPT !.children = @ \cap keep]
            ELSE w.datasets[u]]]

\* Workbench.filter_datasets: one add_filter for every query given
RECURSIVE filter_datasets(_, _)
filter_datasets(w, queries) ==
    IF queries = <<>> \/ w.err # NoErr
    THEN w
    ELSE filter_datasets(add_filter(w, Head(queries)), Tail(queries))

\* ------------------------------------------------------------------------
\* The operations of one Workbench session

NoFilter == [field |-> "", value |-> NoText]

\* the record kept of an operation: its arguments, the exception it raised
\* and whether its folder held an index record before it ran
Outcome(name, path, f, anc, w) ==
    [op |-> name, path |-> path, field |-> f.field, value |-> f.value,
     incl_anc |-> anc, err |-> w.err,
     indexed |-> IF path \in Folders THEN index[path] # NoIndex ELSE FALSE]

Commit(w) ==
    /\ wb' = w.wb
    /\ index' = w.index
    /\ registry' = w.registry
    /\ nextUuid' = w.nextUuid
    /\ datasets' = w.datasets
    /\ parent_dict' = w.parent_dict
    /\ passes_filter' = w.passes_filter
    /\ filters' = w.filters
    /\ assets' = w.assets
    /\ saved' = w.saved

Ready == session = "up" /\ ~hung /\ steps < MaxSteps

\* a new process: Workbench.__init__ -> read_contents -> Datasets(self).
\* An exception leaves no Workbench object, only the changes made to data/.
Build ==
    /\ ~hung
    /\ steps < MaxSteps
    /\ \E order \in Orders(data_entries(World)) :
        LET w == new_datasets(World, order)
            done == IF w.err = NoErr
                    THEN w
                    ELSE [w EXCEPT !.datasets = EmptyMap,
                                   !.parent_dict = EmptyMap,
                                   !.passes_filter = EmptyMap]
        IN /\ Commit(done)
           /\ session' = IF w.err = NoErr THEN "up" ELSE "none"
           /\ last' = Outcome("build", NoPath, NoFilter, FALSE, w)
    /\ filtered_uuids' = {}
    /\ steps' = steps + 1
    /\ UNCHANGED <<symlinks, racers, typed, repos, menu, result, hung>>

IndexFolder(path) ==
    /\ Ready
    /\ LET w == index_folder(World, path)
       IN /\ Commit(w)
          /\ last' = Outcome("index_folder", path, NoFilter, FALSE, w)
    /\ steps' = steps + 1
    /\ UNCHANGED <<symlinks, racers, typed, repos, menu, result, session, filtered_uuids, hung>>

ChangeName(path, name) ==
    /\ Ready
    /\ LET w == change_dataset_attribute(World, path, "name", name)
       IN /\ Commit(w)
          /\ last' = Outcome("change_name", path, NoFilter, FALSE, w)
    /\ steps' = steps + 1
    /\ UNCHANGED <<symlinks, racers, typed, repos, menu, result, session, filtered_uuids, hung>>

ChangeDescription(path, description) ==
    /\ Ready
    /\ LET w == change_dataset_attribute(World, path, "description", description)
       IN /\ Commit(w)
          /\ last' = Outcome("change_description", path, NoFilter, FALSE, w)
    /\ steps' = steps + 1
    /\ UNCHANGED <<symlinks, racers, typed, repos, menu, result, session, filtered_uuids, hung>>

UpdateTag(path, key, value) ==
    /\ Ready
    /\ LET w == update_tag(World, path, key, value)
       IN /\ Commit(w)
          /\ last' = Outcome("update_tag", path,
                             [field |-> "tag", value |-> key \o <<"=">> \o value],
                             FALSE, w)
    /\ steps' = steps + 1
    /\ UNCHANGED <<symlinks, racers, typed, repos, menu, result, session, filtered_uuids, hung>>

DeleteTag(path, key) ==
    /\ Ready
    /\ LET w == wb_delete_tag(World, path, key)
       IN /\ Commit(w)
          /\ last' = Outcome("delete_tag", path,
                             [field |-> "tag", value |-> key], FALSE, w)
    /\ steps' = steps + 1
    /\ UNCHANGED <<symlinks, racers, typed, repos, menu, result, session, filtered_uuids, hung>>

AddFilter(f) ==
    /\ Ready
    /\ Len(filters) < MaxFilters
    /\ LET w == add_filter(World, f)
       IN /\ Commit(w)
          /\ last' = Outcome("add_filter", NoPath, f, FALSE, w)
    /\ steps' = steps + 1
    /\ UNCHANGED <<symlinks, racers, typed, repos, menu, result, session, filtered_uuids, hung>>

RemoveFilter(f) ==
    /\ Ready
    /\ LET w == remove_filter(World, f)
       IN /\ Commit(w)
          /\ last' = Outcome("remove_filter", NoPath, f, FALSE, w)
    /\ steps' = steps + 1
    /\ UNCHANGED <<symlinks, racers, typed, repos, menu, result, session, filtered_uuids, hung>>

\* Datasets.filtered(incl_anc)
Filtered(incl_anc) ==
    /\ Ready
    /\ IF never_returns(World, incl_anc)
       THEN /\ hung' = TRUE
            /\ UNCHANGED <<diskVars, memVars, filtered_uuids, last>>
       ELSE LET keep == get_filtered_uuids(World, incl_anc)
                w == prune(World, keep)
            IN /\ Commit(w)
               /\ filtered_uuids' = keep
               /\ last' = Outcome("filtered", NoPath, NoFilter, incl_anc, w)
               /\ hung' = hung
    /\ steps' = steps + 1
    /\ UNCHANGED <<symlinks, racers, typed, repos, menu, result, session>>

\* Workbench.find_datasets with one query: filter_datasets, then filtered()
FindDatasets(f) ==
    /\ Ready
    /\ Len(filters) < MaxFilters
    /\ LET w1 == filter_datasets(World, <<f>>) IN
       IF w1.err # NoErr
       THEN /\ Commit(w1)
            /\ last' = Outcome("find_datasets", NoPath, f, TRUE, w1)
            /\ UNCHANGED <<filtered_uuids, hung>>
       ELSE IF never_returns(w1, TRUE)
       THEN /\ Commit(w1)
            /\ hung' = TRUE
            /\ UNCHANGED <<filtered_uuids, last>>
       ELSE LET keep == get_filtered_uuids(w1, TRUE)
                w == prune(w1, keep)
            IN /\ Commit(w)
               /\ filtered_uuids' = keep
               /\ last' = Outcome("find_datasets", NoPath, f, TRUE, w)
               /\ hung' = hung
    /\ steps' = steps + 1
    /\ UNCHANGED <<symlinks, racers, typed, repos, menu, result, session>>

\* ------------------------------------------------------------------------
\* The operations on assets and parameters

\* the arguments of the last asset or parameter operation and what it
\* returned
NoResult ==
    [kind |-> "", tool |-> NoText, name |-> NoText, overwrite |-> FALSE,
     kwargs |-> EmptyMap, names |-> {}, params |-> NoParams,
     listed |-> FALSE, setup |-> FALSE, approved |-> FALSE, reported |-> {}]

\* the facts about the folder before the operation ran: whether `name` was
\* listed among the saved sets of its asset, whether its asset was set up
Before(r, kind, asset_name, name, path) ==
    [r EXCEPT !.kind = kind, !.name = name,
              !.listed = name \in _list_asset_params(World, kind, asset_name),
              !.setup = IF path \in Dirs
                        THEN index[path][kind] # NoText ELSE FALSE]

SetupDataset(path, tool, launcher, overwrite) ==
    /\ Ready
    /\ LET w == setup_dataset(World, path, tool, launcher, overwrite)
       IN /\ Commit(w)
          /\ last' = Outcome("setup_dataset", path, NoFilter, FALSE, w)
    /\ result' = [Before(NoResult, "tool", tool, launcher, path)
                    EXCEPT !.tool = tool, !.overwrite = overwrite]
    /\ steps' = steps + 1
    /\ UNCHANGED <<symlinks, racers, typed, repos, menu, session, filtered_uuids, hung>>

SetParams(kind, path, overwrite, kwargs) ==
    /\ Ready
    /\ LET w == _set_asset_params(World, path, kind, overwrite, kwargs)
       IN /\ Commit(w)
          /\ last' = Outcome("set_params", path, NoFilter, FALSE, w)
    /\ result' = [Before(NoResult, kind, index[path][kind], NoText, path)
                    EXCEPT !.overwrite = overwrite, !.kwargs = kwargs,
                           !.approved =
                                _set_asset_params(World, path, kind, overwrite,
                                                  kwargs).err = NoErr,
                           !.reported =
                                set_params_reported(
                                    _set_asset_params(World, path, kind,
                                                      overwrite, kwargs),
                                    assets[path][kind].config.args, kwargs)]
    /\ steps' = steps + 1
    /\ UNCHANGED <<symlinks, racers, typed, repos, menu, session, filtered_uuids, hung>>

SaveParams(kind, path, name, overwrite) ==
    /\ Ready
    /\ LET w == _save_asset_params(World, path, kind, name, overwrite)
       IN /\ Commit(w)
          /\ last' = Outcome("save_params", path, NoFilter, FALSE, w)
    /\ result' = [Before(NoResult, kind, index[path][kind], name, path)
                    EXCEPT !.overwrite = overwrite,
                           !.params = assets[path][kind].params]
    /\ steps' = steps + 1
    /\ UNCHANGED <<symlinks, racers, typed, repos, menu, session, filtered_uuids, hung>>

ReadParams(kind, asset_name, name) ==
    /\ Ready
    /\ last' = Outcome("read_params", NoPath, NoFilter, FALSE,
                       Raise(World, _read_asset_params(World, asset_name, kind,
                                                       name).err))
    /\ result' = [Before(NoResult, kind, asset_name, name, NoPath)
                    EXCEPT !.tool = asset_name,
                           !.params = _read_asset_params(World, asset_name,
                                                         kind, name).params]
    /\ steps' = steps + 1
    /\ UNCHANGED <<symlinks, racers, typed, repos, menu, session, filtered_uuids, hung,
                   diskVars, memVars>>

DeleteParams(kind, asset_name, name) ==
    /\ Ready
    /\ LET w == _delete_asset_params(World, asset_name, kind, name)
       IN /\ Commit(w)
          /\ last' = Outcome("delete_params", NoPath, NoFilter, FALSE, w)
    /\ result' = [Before(NoResult, kind, asset_name, name, NoPath)
                    EXCEPT !.tool = asset_name]
    /\ steps' = steps + 1
    /\ UNCHANGED <<symlinks, racers, typed, repos, menu, session, filtered_uuids, hung>>

ListParams(kind, asset_name) ==
    /\ Ready
    /\ last' = Outcome("list_params", NoPath, NoFilter, FALSE, World)
    /\ result' = [Before(NoResult, kind, asset_name, NoText, NoPath)
                    EXCEPT !.tool = asset_name,
                           !.names = _list_asset_params(World, kind, asset_name)]
    /\ steps' = steps + 1
    /\ UNCHANGED <<symlinks, racers, typed, repos, menu, session, filtered_uuids, hung,
                   diskVars, memVars>>

\* ------------------------------------------------------------------------
\* The typed variant (utils/): an index record carries the type "dataset" or
\* "collection"; the home tree is the set of folders linked from data/.
\* typed.home: the links of data/, link name -> target; typed.top: the
\* links of the home folder itself, next to data/

NoTypedIndex == [type |-> "", uuid |-> NoUuid]

IndexTypes == {"dataset", "collection"}

\* local._get_path_type
get_path_type(t, p) ==
    IF p = FilePath
    THEN "file"
    ELSE IF p \notin TypedDirs
    THEN "folder"
    ELSE IF t.ix[p] = NoTypedIndex
    THEN "folder"
    ELSE t.ix[p].type

\* local._get_path_parent
get_path_parent(p) == Dirname(p)

\* local._path_is_indexed
path_is_indexed(t, p) == get_path_type(t, p) \in IndexTypes

\* the folders that the links of a folder point to
Targets(links) == {links[n] : n \in DOMAIN links}

\* os.listdir in the order `ord` of this run: the entries of data/ are the
\* targets of its links, the entries of a folder are its subfolders
listing(t, ord, d) ==
    IF d = NoPath
    THEN SelectSeq(ord, LAMBDA q : q \in Targets(t.home))
    ELSE SelectSeq(ord, LAMBDA q : Dirname(q) = d)

\* local._walk_home_tree: `pending` is what is left of the listing of the
\* folder popped last, `stack` is folders_to_check, `out` the paths
\* yielded; err: the assert on a folder seen twice has failed
RECURSIVE local_walk_home_tree(_, _, _, _, _, _)
local_walk_home_tree(t, ord, stack, pending, seen, out) ==
    IF pending # <<>>
    THEN
        LET sub == Head(pending) IN
        IF ~path_is_indexed(t, sub)
        THEN local_walk_home_tree(t, ord, stack, Tail(pending), seen, out)
        ELSE IF sub \in seen
        THEN [out |-> out, err |-> TRUE]
        ELSE local_walk_home_tree(t, ord, Append(stack, sub), Tail(pending),
                                  seen \cup {sub}, Append(out, sub))
    ELSE IF stack = <<>>
    THEN [out |-> out, err |-> FALSE]
    ELSE local_walk_home_tree(t, ord, SubSeq(stack, 1, Len(stack) - 1),
                              listing(t, ord, stack[Len(stack)]), seen, out)

\* f"{folder_name}_{n}"
Suffixed(name, n) == name \o <<"_", ToString(n)>>

\* the while loop of local._link_to_home from n: the name is looked for in
\* the home folder, WB._top_level_folder(f"{folder_name}_{n}")
RECURSIVE free_suffix(_, _, _)
free_suffix(t, name, n) ==
    IF Suffixed(name, n) \in DOMAIN t.top
    THEN free_suffix(t, name, n + 1)
    ELSE n

\* local._link_to_home: data/<folder_name> when that name is free, else
\* the first <folder_name>_<n> that is free in the home folder
local_link_to_home(t, path) ==
    IF path \in Targets(t.home)
    THEN t
    ELSE IF Basename(path) \notin DOMAIN t.home
    THEN [t EXCEPT !.home = Put(@, Basename(path), path)]
    ELSE [t EXCEPT !.top =
            Put(@, Suffixed(Basename(path), free_suffix(t, Basename(path), 1)),
                path)]

\* local._add_to_home_tree: the walk stops at the path looked for
local_add_to_home_tree(t, ord, path) ==
    LET walk == local_walk_home_tree(t, ord, <<>>, listing(t, ord, NoPath),
                                     {}, <<>>)
    IN
    IF \E i \in 1..Len(walk.out) : walk.out[i] = path
    THEN t
    ELSE IF walk.err
    THEN [t EXCEPT !.err = "CircularLink"]
    ELSE local_link_to_home(t, path)

\* local._index_folder
local_index_folder(t, ord, ix_type, path) ==
    LET path_type == get_path_type(t, path) IN
    IF path_type = "file"
    THEN [t EXCEPT !.err = "NotAFolder"]
    ELSE IF path_type \in IndexTypes
    THEN [t EXCEPT !.err = "AlreadyIndexed"]
    ELSE IF get_path_type(t, get_path_parent(path)) = "dataset"
    THEN [t EXCEPT !.err = "InvalidNesting"]
    ELSE
        local_add_to_home_tree(
            [t EXCEPT !.ix[path] = [type |-> ix_type, uuid |-> t.nextUuid],
                      !.nextUuid = @ + 1],
            ord, path)

\* utils.dataset.Dataset.create_index(ix_type)
typed_create_index(t, ix_type, path) ==
    LET parent_dir == Dirname(path)
        parent_index == IF parent_dir \in Dirs
                        THEN t.ix[parent_dir]
                        ELSE NoTypedIndex
    IN
    IF t.ix[path] # NoTypedIndex
    THEN [t EXCEPT !.err = "AlreadyIndexed"]
    ELSE IF ~(parent_index = NoTypedIndex \/ parent_index.type = "collection")
    THEN [t EXCEPT !.err = "InvalidNesting"]
    ELSE [t EXCEPT !.ix[path] = [type |-> ix_type, uuid |-> t.nextUuid],
                   !.nextUuid = @ + 1]

\* the folder p lies inside the folder d, at any depth
Inside(p, d) == Len(d) < Len(p) /\ SubSeq(p, 1, Len(d)) = d

\* the record kept of a call of the typed variant: what the folder and the
\* folders around it were before the call, the exception, what was written
TypedOutcome(name, ix_type, path, t) ==
    [op |-> name, ix_type |-> ix_type, path |-> path, err |-> t.err,
     was_indexed |-> path_is_indexed(typed, path),
     in_dataset |-> \E d \in TypedDirs :
                        Inside(path, d) /\ get_path_type(typed, d) = "dataset",
     in_collection |-> get_path_type(typed, Dirname(path)) = "collection",
     wrote |-> IF path \in TypedDirs THEN t.ix[path] # typed.ix[path]
               ELSE FALSE]

TypedCommit(name, ix_type, path, t) ==
    typed' = [ix |-> t.ix, home |-> t.home, top |-> t.top,
              nextUuid |-> t.nextUuid,
              err |-> NoErr, last |-> TypedOutcome(name, ix_type, path, t)]

\* bash-workbench index_dataset / index_collection (utils/filesystem/local)
\* (the walk skips the entries that hold no index record: the order of the
\* listings is an order of the folders that hold one after the write)
TypedIndexFolder(ix_type, path) ==
    /\ steps < MaxSteps
    /\ steps' = steps + 1
    /\ \E ord \in Orders({p \in TypedDirs :
                                path_is_indexed(typed, p) \/ p = path}) :
        TypedCommit("index_folder", ix_type, path,
                    local_index_folder(typed, ord, ix_type, path))
    /\ UNCHANGED uniformVars

\* Dataset(path).create_index(ix_type) (utils/dataset)
TypedCreateIndex(ix_type, path) ==
    /\ steps < MaxSteps
    /\ steps' = steps + 1
    /\ TypedCommit("create_index", ix_type, path,
                   typed_create_index(typed, ix_type, path))
    /\ UNCHANGED uniformVars

NoTypedOutcome ==
    [op |-> "", ix_type |-> "", path |-> NoPath, err |-> NoErr,
     was_indexed |-> FALSE, in_dataset |-> FALSE, in_collection |-> FALSE,
     wrote |-> FALSE]

\* nothing is indexed in the typed variant
TypedInit ==
    typed = [ix |-> [p \in TypedDirs |-> NoTypedIndex], home |-> EmptyMap,
             top |-> EmptyMap, nextUuid |-> 1,
             err |-> NoErr, last |-> NoTypedOutcome]

\* ------------------------------------------------------------------------
\* ParamsMenu: the validation of the parameters that a user enters

\* "nargs" of an argument: "?", "*", "+" or a number
NargsSym(s) == [int |-> FALSE, n |-> 0, sym |-> s]
NargsInt(n) == [int |-> TRUE, n |-> n, sym |-> ""]

\* val.get("nargs", "?") not in ["?", 1]
list_type(nargs) == ~(nargs = NargsSym("?") \/ nargs = NargsInt(1))

\* ParamsMenu.__init__: the default stands in for a value that is None
defaulted(e, supplied) ==
    IF supplied.none /\ ~e.default.none THEN e.default ELSE supplied

\* a value that is no list becomes a list of one element
as_list(v) == IF v.none THEN v ELSE [v EXCEPT !.list = TRUE]

\* a validation that never counts the elements
validate_params_any(e, v) ==
    IF list_type(e.nargs) /\ ~e.default.none /\ ~e.default.list
    THEN [err |-> "AssertionError", value |-> v, approved |-> TRUE]
    ELSE [err |-> NoErr,
          value |-> IF list_type(e.nargs) \/ e.nargs.int THEN as_list(v) ELSE v,
          approved |-> ~(e.required /\ v.none)]

\* ParamsMenu.validate_params for the one argument e whose value is v
validate_params(e, v) ==
    IF list_type(e.nargs) /\ ~e.default.none /\ ~e.default.list
    THEN [err |-> "AssertionError", value |-> v, approved |-> TRUE]
    ELSE [err |-> NoErr,
          value |-> IF list_type(e.nargs) \/ e.nargs.int THEN as_list(v) ELSE v,
          approved |->
            /\ ~(e.required /\ v.none)
            /\ (e.nargs.int => ~v.none /\ Len(v.items) = e.nargs.n)]

NoMenu ==
    [nargs |-> NargsSym("?"), required |-> FALSE, default |-> NoValue,
     supplied |-> NoValue, value |-> NoValue, approved |-> FALSE,
     err |-> NoErr, validated |-> FALSE]

\* ParamsMenu(config, params, menu): __init__ fills in the default and
\* calls validate_params
NewParamsMenu ==
    /\ ~menu.validated
    /\ menu' = [menu EXCEPT
            !.validated = TRUE,
            !.value = validate_params(menu, defaulted(menu, menu.supplied)).value,
            !.approved =
                validate_params(menu, defaulted(menu, menu.supplied)).approved,
            !.err = validate_params(menu, defaulted(menu, menu.supplied)).err]
    /\ UNCHANGED <<uniformVars_but_menu, typed, steps>>

\* ------------------------------------------------------------------------
\* ParamsMenu on all the arguments of an asset, and
\* WorkbenchMenu._dataset_asset_params_menu

\* an entry of "args" that holds "nargs"
ArgN(key, required, nargs) ==
    [nargs |-> nargs] @@ Arg(key, required, NoValue, "")

\* the tool u of the repository r: m takes two values, n takes one, both
\* are required
PairArgs == <<ArgN("m", TRUE, NargsInt(2)), ArgN("n", TRUE, NargsSym("?"))>>

PairRepos ==
    (NameR :>
        [complete |-> TRUE,
         tool |-> (NameT :> AssetFolder(Config(ToolArgs), TRUE))
                    @@ (<<"u">> :> AssetFolder(Config(PairArgs), TRUE)),
         launcher |-> (NameL :> AssetFolder(Config(LauncherArgs), TRUE))])

\* self.config[param_key] for the key k
ArgOf(args, k) == args[CHOOSE i \in 1..Len(args) : args[i].key = k]

ArgKeys(args) == {args[i].key : i \in 1..Len(args)}

\* Dataset.read_asset_params: the strings of params.json ({} when None)
read_asset_params(w, q, kind) ==
    IF w.assets[q][kind].params.exists
    THEN [k \in DOMAIN w.assets[q][kind].params.map |->
            Scalar(w.assets[q][kind].params.map[k])]
    ELSE EmptyMap

\* ParamsMenu.__init__: the default of every argument without a value
menu_defaults(args, params) ==
    [k \in (DOMAIN params)
            \cup {a \in ArgKeys(args) : ~ArgOf(args, a).default.none} |->
        IF k \in ArgKeys(args)
        THEN defaulted(ArgOf(args, k), Get(params, k, NoValue))
        ELSE params[k]]

\* one round of the loop of validate_params
checked(args, params, i) ==
    validate_params(args[i], Get(params, args[i].key, NoValue))

\* the messages that the round hands to invalidate()
menu_messages(e, v) ==
    (IF e.required /\ v.none THEN {"missing"} ELSE {})
    \cup (IF e.nargs.int /\ v.none THEN {"missing"} ELSE {})
    \cup (IF e.nargs.int /\ ~v.none /\ Len(v.items) # e.nargs.n
          THEN {"elements"} ELSE {})

\* ParamsMenu.validate_params(echo=True): every argument is looked at, the
\* messages are printed as they come, approved is False after any of them
validate_set(args, params) ==
    [err |-> IF \E i \in 1..Len(args) : checked(args, params, i).err # NoErr
             THEN "AssertionError" ELSE NoErr,
     approved |-> \A i \in 1..Len(args) : checked(args, params, i).approved,
     reported |->
        UNION {{<<args[i].key, m>> :
                    m \in menu_messages(args[i], checked(args, params, i).value)} :
               i \in 1..Len(args)},
     params |->
        [k \in DOMAIN params |->
            IF k \in ArgKeys(args)
            THEN validate_params(ArgOf(args, k), params[k]).value
            ELSE params[k]]]

\* **params_menu.params: a value of None is no keyword argument
given(params) == [k \in {x \in DOMAIN params : ~params[x].none} |-> params[k]]

\* the set that the user confirms with "Review and run": the one that the
\* menu starts with, or one that the user has entered
menu_confirmed(w, q, kind, args, keep, edits) ==
    IF keep THEN menu_defaults(args, read_asset_params(w, q, kind)) ELSE edits

\* review_and_run and the end of _dataset_asset_params_menu: an approved
\* set goes to _set_asset_params, a set that is not approved is dropped
\* when the user goes back to the main menu
menu_review(w, path, kind, v) ==
    IF v.err # NoErr THEN Raise(w, v.err)
    ELSE IF v.approved
    THEN _set_asset_params(w, path, kind, TRUE, given(v.params))
    ELSE w

\* _dataset_asset_params_menu once the asset is found in the catalog
menu_found(w, path, kind, a, keep, edits) ==
    IF a.err # NoErr THEN Raise(w, a.err)
    ELSE IF Len(a.folder.config.args) = 0
    THEN _set_asset_params(w, path, kind, TRUE, EmptyMap)
    ELSE menu_review(w, path, kind,
            validate_set(a.folder.config.args,
                menu_confirmed(w, abs_path(w.links, path), kind,
                               a.folder.config.args, keep, edits)))

dataset_asset_params_menu(w, path, kind, keep, edits) ==
    menu_found(w, path, kind, asset(w, kind, Dataset(w, path).index[kind]),
               keep, edits)

\* what the menu printed and decided for the set that was confirmed
menu_verdict(w, q, kind, a, keep, edits) ==
    validate_set(a.folder.config.args,
                 menu_confirmed(w, q, kind, a.folder.config.args, keep, edits))

ParamsMenuSession(kind, path, keep, edits) ==
    /\ Ready
    /\ index[path][kind] # NoText
    /\ asset(World, kind, index[path][kind]).err = NoErr
    /\ LET w == dataset_asset_params_menu(World, path, kind, keep, edits)
       IN /\ Commit(w)
          /\ last' = Outcome("params_menu", path, NoFilter, FALSE, w)
    /\ result' =
        [Before(NoResult, kind, index[path][kind], NoText, path)
            EXCEPT !.overwrite = TRUE,
                   !.kwargs = menu_confirmed(World, path, kind,
                                asset(World, kind, index[path][kind])
                                    .folder.config.args, keep, edits),
                   !.approved = menu_verdict(World, path, kind,
                                    asset(World, kind, index[path][kind]),
                                    keep, edits).approved,
                   !.reported = menu_verdict(World, path, kind,
                                    asset(World, kind, index[path][kind]),
                                    keep, edits).reported]
    /\ steps' = steps + 1
    /\ UNCHANGED <<symlinks, racers, typed, repos, menu, session, filtered_uuids, hung>>

\* ------------------------------------------------------------------------
\* The scan of the catalog when a Workbench is made, and list_tools /
\* list_launchers on the Workbench

ListAssets(kind) ==
    /\ session = "none"
    /\ last' = Outcome("list_assets", NoPath, NoFilter, FALSE,
                       Raise(World, setup_repositories(repos).err))
    /\ result' =
        [NoResult EXCEPT
            !.kind = kind,
            !.names = IF setup_repositories(repos).err # NoErr THEN {}
                      ELSE _list_assets(setup_repositories(repos).repositories,
                                        kind)]
    /\ UNCHANGED <<symlinks, racers, typed, repos, menu, session, filtered_uuids, hung,
                   diskVars, memVars, steps>>

\* ------------------------------------------------------------------------
\* Initial states: the disk as earlier sessions and the user left it

\* nothing is indexed; /x/c holds a ._wb/ subfolder without an index.json
EmptyDisk ==
    [wb |-> [p \in Folders |-> p = PathXC],
     index |-> [p \in Folders |-> NoIndex],
     registry |-> EmptyMap,
     nextUuid |-> 1]

\* the four folders were indexed by earlier processes and /x/ab/b was
\* tagged k=v
UsedDisk ==
    [wb |-> [p \in Folders |-> p \in Dirs],
     index |-> [p \in Folders |->
        IF p = PathData
        THEN NoIndex
        ELSE IF p = PathX
        THEN [NoIndex EXCEPT !.uuid = 1, !.name = NameX]
        ELSE IF p = PathXAB
        THEN [NoIndex EXCEPT !.uuid = 2, !.name = NameAB]
        ELSE IF p = PathXABB
        THEN [NoIndex EXCEPT !.uuid = 3, !.name = NameB,
                             !.tags = {<<(<<"k">>), (<<"v">>)>>},
                             !.derived = TRUE, !.path = PathXABB]
        ELSE [NoIndex EXCEPT !.uuid = 4, !.name = NameC]],
     registry |-> (1 :> PathX) @@ (2 :> PathXAB) @@ (3 :> PathXABB)
                    @@ (4 :> PathXC),
     nextUuid |-> 5]

\* /x is indexed; data/ also holds references that resolve to no indexed
\* folder: a path that is gone, a regular file, a folder without an index
\* record (/x/c), and a folder whose index holds another uuid
StaleDisk ==
    [wb |-> [p \in Folders |-> p \in {PathX, PathXC}],
     index |-> [p \in Folders |->
        IF p = PathX
        THEN [NoIndex EXCEPT !.uuid = 1, !.name = NameX]
        ELSE NoIndex],
     registry |-> (1 :> PathX) @@ (6 :> MissingPath) @@ (7 :> FilePath)
                    @@ (8 :> PathXC) @@ (9 :> PathX),
     nextUuid |-> 10]

\* no processes that race
Procs == {1, 2}

NoRacers ==
    [path |-> NoPath,
     pc |-> [i \in Procs |-> "none"],
     fresh |-> [i \in Procs |-> FALSE],
     ds |-> [i \in Procs |-> NoDataset]]

NoRace == racers = NoRacers

NoWorkbench ==
    /\ session = "none"
    /\ datasets = EmptyMap
    /\ parent_dict = EmptyMap
    /\ passes_filter = EmptyMap
    /\ filters = <<>>
    /\ filtered_uuids = {}
    /\ hung = FALSE
    /\ last = [op |-> "", path |-> NoPath, field |-> "", value |-> NoText,
               incl_anc |-> FALSE, err |-> NoErr, indexed |-> FALSE]
    /\ steps = 0

OnDisk(d) ==
    /\ wb = d.wb
    /\ index = d.index
    /\ registry = d.registry
    /\ nextUuid = d.nextUuid

\* /x and /x/ab were indexed and registered by earlier processes; the user
\* then copied /x/ab with its ._wb/ to /x/c, which holds the same uuid
CopiedDisk ==
    [wb |-> [p \in Folders |-> p \in {PathX, PathXAB, PathXC}],
     index |-> [p \in Folders |->
        IF p = PathX
        THEN [NoIndex EXCEPT !.uuid = 1, !.name = NameX]
        ELSE IF p \in {PathXAB, PathXC}
        THEN [NoIndex EXCEPT !.uuid = 2, !.name = NameAB]
        ELSE NoIndex],
     registry |-> (1 :> PathX) @@ (2 :> PathXAB),
     nextUuid |-> 3]

\* no tool or launcher was ever set up, nothing was validated or returned
NoAssetsUsed ==
    /\ repos = GoodRepos
    /\ menu = NoMenu
    /\ result = NoResult

PlainAssets ==
    /\ NoAssetsUsed
    /\ assets = NoAssets
    /\ saved = EmptyMap

\* any of the three disks without links; the disk with the four indexed
\* folders also with the link to an ancestor or the link to a sibling
Init ==
    /\ \E d \in {EmptyDisk, UsedDisk, StaleDisk} : OnDisk(d)
    /\ symlinks \in (IF wb = UsedDisk.wb
                     THEN {NoLinks, CycleLinks, DiamondLinks}
                     ELSE {NoLinks})
    /\ NoWorkbench
    /\ NoRace
    /\ TypedInit
    /\ PlainAssets

Next ==
    \/ Build
    \/ \E p \in Dirs : IndexFolder(p)
    \/ \E p \in ChangedDirs, n \in NewNames : ChangeName(p, n)
    \/ \E p \in ChangedDirs, d \in NewDescriptions : ChangeDescription(p, d)
    \/ \E p \in ChangedDirs, k \in TagKeys, v \in TagValues : UpdateTag(p, k, v)
    \/ \E p \in ChangedDirs, k \in TagKeys : DeleteTag(p, k)
    \/ \E f \in FilterInputs : AddFilter(f)
    \/ \E f \in FilterInputs : RemoveFilter(f)
    \/ \E a \in BOOLEAN : Filtered(a)
    \/ \E f \in FilterInputs : FindDatasets(f)

Spec == Init /\ [][Next]_vars

\* the operations of the filter engine alone:
\* building, adding nodes, adding and removing filters, querying
NextQuery ==
    \/ Build
    \/ \E p \in Dirs : IndexFolder(p)
    \/ \E f \in FilterInputs : AddFilter(f)
    \/ \E f \in FilterInputs : RemoveFilter(f)
    \/ \E a \in BOOLEAN : Filtered(a)

SpecQuery == Init /\ [][NextQuery]_vars

\* the typed variant on folders that start without index records
InitTyped ==
    /\ symlinks = NoLinks
    /\ OnDisk(EmptyDisk)
    /\ NoWorkbench
    /\ NoRace
    /\ TypedInit
    /\ PlainAssets

NextTyped ==
    \/ \E k \in IndexTypes, p \in Dirs \cup {FilePath} : TypedIndexFolder(k, p)
    \/ \E k \in IndexTypes, p \in Dirs : TypedCreateIndex(k, p)

SpecTyped == InitTyped /\ [][NextTyped]_vars

\* ------------------------------------------------------------------------
\* Sessions that set up tools and launchers and set their parameters

\* /x/c of the disk with the four indexed folders was set up with the tool
\* r/t and the launcher l; the parameters of the tool were set (a=v) and
\* saved under the name n; the parameters of the launcher were set (q=v)
\* and its params.json was removed by hand since, its env script is left
SetUpDisk ==
    [UsedDisk EXCEPT
        !.index[PathXC] =
            [@ EXCEPT !.setup_at = 1, !.tool = NameT, !.launcher = NameL,
                      !.tool_repo = NameR, !.launcher_repo = NameR]]

SetUpParams == ("a" :> <<"v">>)

SetUpAssets ==
    [NoAssets EXCEPT
        ![PathXC] =
            [tool |->
                [config |-> Config(ToolArgs), script |-> TRUE,
                 params |-> Params(SetUpParams),
                 env |-> [exists |-> TRUE,
                          lines |-> env_script(<<(<<"TOOL_REPO", NameR>>),
                                                 (<<"A", (<<"v">>)>>)>>)]],
             launcher |->
                [config |-> Config(LauncherArgs), script |-> TRUE,
                 params |-> NoParams,
                 env |-> [exists |-> TRUE,
                          lines |-> env_script(<<(<<"LAUNCHER_REPO", NameR>>),
                                                 (<<"Q", (<<"v">>)>>)>>)]]]]

SetUpSaved == (<<"tool", NameT, (<<"n">> \o Suffix)>> :> Params(SetUpParams))

\* the session on the disk with the copied folder
InitCopied ==
    /\ symlinks = NoLinks
    /\ OnDisk(CopiedDisk)
    /\ NoWorkbench
    /\ NoRace
    /\ TypedInit
    /\ PlainAssets

SpecCopied == InitCopied /\ [][Next]_vars

\* names with the characters that json.dump escapes
EscapedNames == {<<"\\", "b">>}
AssetFilters == {[field |-> "name", value |-> <<"b">>]}

InitAssets ==
    /\ symlinks = NoLinks
    /\ \/ OnDisk(EmptyDisk) /\ assets = NoAssets /\ saved = EmptyMap
       \/ OnDisk(UsedDisk) /\ assets = NoAssets /\ saved = EmptyMap
       \/ OnDisk(SetUpDisk) /\ assets = SetUpAssets /\ saved = SetUpSaved
    /\ NoAssetsUsed
    /\ NoWorkbench
    /\ NoRace
    /\ TypedInit

NextAssets ==
    \/ Build
    \/ \E p \in SetupDirs : IndexFolder(p)
    \/ \E p \in SetupDirs, n \in EscapedNames : ChangeName(p, n)
    \/ \E p \in SetupDirs, d \in NewDescriptions : ChangeDescription(p, d)
    \/ \E p \in SetupDirs, k \in TagKeys, v \in TagValues : UpdateTag(p, k, v)
    \/ \E p \in SetupDirs, k \in TagKeys : DeleteTag(p, k)
    \/ \E f \in AssetFilters : AddFilter(f)
    \/ \E f \in AssetFilters : RemoveFilter(f)
    \/ \E a \in BOOLEAN : Filtered(a)
    \/ \E f \in AssetFilters : FindDatasets(f)
    \/ \E p \in SetupDirs, t \in ToolNames, l \in LauncherNames,
          o \in BOOLEAN : SetupDataset(p, t, l, o)
    \/ \E k \in AssetTypes, p \in SetupDirs, o \in BOOLEAN, kw \in Kwargs :
            SetParams(k, p, o, kw)
    \/ \E k \in AssetTypes, p \in SetupDirs, n \in SavedNames, o \in BOOLEAN :
            SaveParams(k, p, n, o)
    \/ \E k \in AssetTypes, n \in SavedNames : ReadParams(k, NameT, n)
    \/ \E k \in AssetTypes, n \in SavedNames : DeleteParams(k, NameT, n)
    \/ \E k \in AssetTypes : ListParams(k, NameT)

SpecAssets == InitAssets /\ [][NextAssets]_vars

\* ------------------------------------------------------------------------
\* ParamsMenu on one argument and one value

\* longest list of values and largest number that nargs holds
MaxArgs == 3

NargsInputs ==
    {NargsSym("?"), NargsSym("*"), NargsSym("+")}
        \cup {NargsInt(n) : n \in 1..MaxArgs}

\* a list of n values
Values(n) == List([i \in 1..n |-> <<"v">>])

SuppliedInputs == {NoValue, Scalar(<<"v">>)} \cup {Values(n) : n \in 0..MaxArgs}

\* the defaults that a config.json may declare for nargs: none, or a value
\* of the type of nargs (a list of as many values as a number asks for)
DefaultInputs(nargs) ==
    {NoValue,
     IF ~list_type(nargs) THEN Scalar(<<"d">>)
     ELSE IF nargs.int THEN Values(nargs.n)
     ELSE Values(1)}

InitValidate ==
    /\ symlinks = NoLinks
    /\ OnDisk(EmptyDisk)
    /\ NoWorkbench
    /\ NoRace
    /\ TypedInit
    /\ repos = GoodRepos
    /\ assets = NoAssets
    /\ saved = EmptyMap
    /\ result = NoResult
    /\ \E n \in NargsInputs, r \in BOOLEAN, s \in SuppliedInputs :
        \E d \in DefaultInputs(n) :
            menu = [NoMenu EXCEPT !.nargs = n, !.required = r, !.default = d,
                                  !.supplied = s]

NextValidate == NewParamsMenu

SpecValidate == InitValidate /\ [][NextValidate]_vars

\* ------------------------------------------------------------------------
\* The catalog scan on repositories under edit

\* an asset folder that may miss config.json, run.sh or both
EditedFolders ==
    {AssetFolder(c, s) : c \in {NoConfig, Config(<<>>)}, s \in BOOLEAN}

NameU == <<"u">>

\* the repository r with the tools t and u and the launcher l, or without
\* its ._wb/ subfolder
EditedRepos ==
    {(NameR :> [complete |-> TRUE,
                tool |-> (NameT :> t) @@ (NameU :> u),
                launcher |-> (NameL :> l)]) :
        t \in EditedFolders, u \in EditedFolders, l \in EditedFolders}
    \cup {(NameR :> [complete |-> FALSE, tool |-> EmptyMap,
                     launcher |-> EmptyMap])}

InitCatalog ==
    /\ symlinks = NoLinks
    /\ OnDisk(EmptyDisk)
    /\ NoWorkbench
    /\ NoRace
    /\ TypedInit
    /\ repos \in EditedRepos
    /\ assets = NoAssets
    /\ saved = EmptyMap
    /\ menu = NoMenu
    /\ result = NoResult

NextCatalog == \E k \in AssetTypes : ListAssets(k)

SpecCatalog == InitCatalog /\ [][NextCatalog]_vars

\* ------------------------------------------------------------------------
\* Sessions that set the parameters of the tool u, by set_tool_params and
\* in the menu

\* /x/c of the disk with the four indexed folders was set up with the tool
\* r/u
PairDisk ==
    [UsedDisk EXCEPT
        !.index[PathXC] =
            [@ EXCEPT !.setup_at = 1, !.tool = <<"u">>, !.tool_repo = NameR]]

PairAssets ==
    [NoAssets EXCEPT
        ![PathXC].tool =
            [config |-> Config(PairArgs), script |-> TRUE,
             params |-> NoParams, env |-> NoEnv]]

\* the sets that a user enters: m missing, one value, a list of one or of
\* two values; n missing or one value
ParamSets ==
    {m @@ n :
        m \in {EmptyMap, ("m" :> Scalar(<<"v">>)),
               ("m" :> List(<<(<<"v">>)>>)),
               ("m" :> List(<<(<<"v">>), (<<"w">>)>>))},
        n \in {EmptyMap, ("n" :> Scalar(<<"v">>))}}

InitParamSets ==
    /\ symlinks = NoLinks
    /\ OnDisk(PairDisk)
    /\ assets = PairAssets
    /\ saved = EmptyMap
    /\ repos = PairRepos
    /\ menu = NoMenu
    /\ result = NoResult
    /\ NoWorkbench
    /\ NoRace
    /\ TypedInit

NextParamSets ==
    \/ Build
    \/ \E o \in BOOLEAN, s \in ParamSets : SetParams("tool", PathXC, o, s)
    \/ \E k \in BOOLEAN, s \in ParamSets :
            ParamsMenuSession("tool", PathXC, k, s)
    \/ \E o \in BOOLEAN : SaveParams("tool", PathXC, <<"n">>, o)
    \/ ReadParams("tool", <<"u">>, <<"n">>)

SpecParamSets == InitParamSets /\ [][NextParamSets]_vars

\* the typed variant on the three folders named b and on /x/c, the folder
\* around one of them
SameNamed == {PathXB, PathXABB, PathXCB}

NextLinks ==
    \E k \in IndexTypes, p \in SameNamed \cup {PathXC} : TypedIndexFolder(k, p)

SpecLinks == InitTyped /\ [][NextLinks]_vars

\* ------------------------------------------------------------------------
\* Sessions that index and register folders, starting with an empty data/

\* /x/c/l, the link to /x/ab of DiamondLinks
LinkXCL == Append(PathXC, NameL)

\* the paths given to index_folder: the folders, data/ itself and the link
RegisterPaths == Folders \cup {LinkXCL}

InitRegister ==
    /\ symlinks \in {NoLinks, DiamondLinks}
    /\ OnDisk(EmptyDisk)
    /\ NoWorkbench
    /\ NoRace
    /\ TypedInit
    /\ PlainAssets

NextRegister ==
    \/ Build
    \/ \E p \in RegisterPaths : exists(symlinks, p) /\ IndexFolder(p)

SpecRegister == InitRegister /\ [][NextRegister]_vars

\* ------------------------------------------------------------------------
\* Two processes that run index_folder on the same folder. A process is
\* followed from one access of the disk to the next; what it holds in
\* memory (its Dataset object) is private. When from_path finds ._wb/
\* without an index.json, Datasets.add makes the index inside from_path:
\* the accesses of the disk and their order are the same.

\* Dataset.create_index: the dict that it assigns to self.index
made_index(w, ds) ==
    [ds EXCEPT !.index =
        [NoIndex EXCEPT !.uuid = uuid4(w), !.indexed_at = w.now,
                        !.name = Basename(ds.base_path)]]

RaceFrame ==
    UNCHANGED <<symlinks, session, datasets, parent_dict, passes_filter,
                filters, filtered_uuids, hung, last, steps, typed, repos,
                assets, saved, menu, result>>

\* Datasets.from_path -> Dataset(...).read_index, then `if ds.index is None`
RaceFromPath(i) ==
    /\ racers.pc[i] = "start"
    /\ racers' =
        [racers EXCEPT
            !.ds[i] = Dataset(World, racers.path),
            !.fresh[i] = (Dataset(World, racers.path).index = NoIndex),
            !.pc[i] = IF Dataset(World, racers.path).index = NoIndex
                      THEN "checked" ELSE "indexed"]
    /\ UNCHANGED <<wb, index, registry, nextUuid>>
    /\ RaceFrame

\* create_index: populate_folders makes ._wb/, uuid4() gives the uuid
RacePopulate(i) ==
    /\ racers.pc[i] = "checked"
    /\ wb' = [wb EXCEPT ![abs_path(symlinks, racers.path)] = TRUE]
    /\ nextUuid' = nextUuid + 1
    /\ racers' = [racers EXCEPT !.ds[i] = made_index(World, @),
                                !.pc[i] = "made"]
    /\ UNCHANGED <<index, registry>>
    /\ RaceFrame

\* Dataset.write_json: exists(fp) and the assertion on overwrite
RaceTest(i) ==
    /\ racers.pc[i] = "made"
    /\ racers' =
        [racers EXCEPT
            !.pc[i] = IF write_index(World, racers.ds[i], FALSE).err # NoErr
                      THEN "failed" ELSE "tested"]
    /\ UNCHANGED <<wb, index, registry, nextUuid>>
    /\ RaceFrame

\* FileLib.write_json: open(path, mode='w') and json.dump
RaceWrite(i) ==
    /\ racers.pc[i] = "tested"
    /\ index' = write_index(World, racers.ds[i], TRUE).index
    /\ racers' = [racers EXCEPT !.pc[i] = "written"]
    /\ UNCHANGED <<wb, registry, nextUuid>>
    /\ RaceFrame

\* add_to_home_tree writes data/<uuid>; Datasets.add touches no file and
\* the process ends
RaceLink(i) ==
    /\ racers.pc[i] \in {"written", "indexed"}
    /\ registry' = add_to_home_tree(World, racers.ds[i], racers.path).registry
    /\ racers' = [racers EXCEPT !.pc[i] = "done"]
    /\ UNCHANGED <<wb, index, nextUuid>>
    /\ RaceFrame

RaceEnded == \A i \in Procs : racers.pc[i] \in {"done", "failed"}

InitRace ==
    /\ symlinks = NoLinks
    /\ OnDisk(EmptyDisk)
    /\ NoWorkbench
    /\ TypedInit
    /\ PlainAssets
    /\ \E p \in Dirs :
        racers = [NoRacers EXCEPT !.path = p,
                                  !.pc = [i \in Procs |-> "start"]]

NextRace ==
    \/ \E i \in Procs : RaceFromPath(i)
    \/ \E i \in Procs : RacePopulate(i)
    \/ \E i \in Procs : RaceTest(i)
    \/ \E i \in Procs : RaceWrite(i)
    \/ \E i \in Procs : RaceLink(i)
    \/ RaceEnded /\ Build

SpecRace == InitRace /\ [][NextRace]_vars

\* ------------------------------------------------------------------------
\* Vocabulary of the properties

\* a step of the operation `name` on the folder p
Did(name, p) == steps' = steps + 1 /\ last'.op = name /\ last'.path = p

\* a query has just returned the map with the keys filtered_uuids
Returned == last.op \in {"filtered", "find_datasets"} /\ last.err = NoErr

\* the n-th parent of u
RECURSIVE Up(_, _, _)
Up(ds, u, n) ==
    IF n = 0 \/ u = NoUuid THEN u ELSE Up(ds, ds[u].parent, n - 1)

\* u and the nodes on its parent chain
Ancestors(ds, u) ==
    {Up(ds, u, n) : n \in 0..Cardinality(DOMAIN ds)} \ {NoUuid}

\* the node satisfies the query: substring of the name or the description,
\* or the tag key mapped to exactly the value of a key=value query
Satisfies(info, f) ==
    IF f.field = "tag"
    THEN /\ TagQueryOk(f.value)
         /\ <<SplitKey(f.value), SplitValue(f.value)>> \in info.tags
    ELSE IF f.field = "name"
    THEN Contains(f.value, info.name)
    ELSE Contains(f.value, info.description)

SatisfiesAll(u) ==
    \A i \in 1..Len(filters) : Satisfies(datasets[u], filters[i])

C2_Uniqueness ==
    /\ \A p, q \in Dirs :
        (p # q /\ index[p] # NoIndex /\ index[q] # NoIndex)
            => index[p].uuid # index[q].uuid
    /\ \A u \in DOMAIN datasets :
        /\ datasets[u].uuid = u
        /\ index[datasets[u].path].uuid = u
    /\ \A u, v \in DOMAIN datasets :
        u # v => datasets[u].path # datasets[v].path

C2_Witness ==
    /\ last.op = "index_folder"
    /\ ~last.indexed
    /\ last.err = NoErr
    /\ Cardinality(DOMAIN datasets) >= 2

\* C3: every node that filtered(incl_anc=True) returns satisfies every
\* active filter or has a descendant in the returned set that does.
C3_AncestorClosure ==
    (Returned /\ last.incl_anc) =>
        \A m \in filtered_uuids :
            \/ SatisfiesAll(m)
            \/ \E d \in filtered_uuids :
                d # m /\ m \in Ancestors(datasets, d) /\ SatisfiesAll(d)

\* C4: find_datasets with the tag query key=value as the only active filter
\* returns every node that carries the tag with all the nodes on its parent
\* chain, and no node that neither carries the tag nor is on the parent
\* chain of a node that does.
C4_FilterCompleteness ==
    (/\ last.op = "find_datasets"
     /\ last.err = NoErr
     /\ last.field = "tag"
     /\ filters = <<[field |-> "tag", value |-> last.value]>>)
    =>
        LET tagged == {u \in DOMAIN datasets :
                          <<SplitKey(last.value), SplitValue(last.value)>>
                              \in datasets[u].tags}
        IN /\ \A u \in tagged : Ancestors(datasets, u) \subseteq filtered_uuids
           /\ \A m \in filtered_uuids :
                \E u \in tagged : m \in Ancestors(datasets, u)

C4_Witness ==
    /\ last.op = "find_datasets"
    /\ last.err = NoErr
    /\ filters = <<[field |-> "tag", value |-> <<"k", "=", "v">>]>>
    /\ \E u \in filtered_uuids :
        /\ <<(<<"k">>), (<<"v">>)>> \in datasets[u].tags
        /\ index[datasets[u].path].tags = datasets[u].tags
        /\ datasets[u].parent \in filtered_uuids
        /\ \E v \in (DOMAIN datasets) \ filtered_uuids :
            datasets[v].parent = datasets[u].parent

\* C5: every id in the children of a node of the map that filtered()
\* returns is a key of that map.
C5_ChildrenConsistency ==
    Returned =>
        /\ filtered_uuids \subseteq DOMAIN datasets
        /\ \A u \in filtered_uuids :
            datasets[u].children \subseteq filtered_uuids

C5_Witness ==
    /\ Returned
    /\ \E u \in filtered_uuids :
        \E v \in (DOMAIN datasets) \ filtered_uuids :
            /\ datasets[v].parent = u
            /\ v \notin datasets[u].children

\* the folders directly nested in the folder p that hold an index record
NestedIn(p) ==
    {abs_path(symlinks, q) : q \in {e \in listdir(symlinks, p) :
        isdir(symlinks, e) /\ index[abs_path(symlinks, e)] # NoIndex}}

\* the folders reached from p by n or fewer steps of nesting, n >= 1
RECURSIVE Below(_, _)
Below(p, n) ==
    IF n = 1
    THEN NestedIn(p)
    ELSE Below(p, n - 1) \cup UNION {NestedIn(q) : q \in Below(p, n - 1)}

\* the folders that data/ refers to, with the folders nested below them
Registered ==
    LET top == {registry[u] : u \in DOMAIN registry} \cap
                   {p \in Dirs : index[p] # NoIndex}
    IN top \cup UNION {Below(p, Cardinality(Dirs)) : p \in top}

\* an indexed folder of the registry is nested below itself
NestingCycle == \E p \in Registered : p \in Below(p, Cardinality(Dirs))

\* C6: building the working set of a registry whose nesting graph holds a
\* cycle fails; no tree is returned.
C6_CycleFatal ==
    (last.op = "build" /\ NestingCycle) => (last.err # NoErr /\ session = "none")

\* C7: add_filter("tag", v) raises exactly when v holds no "=" or ends
\* with "=", whatever the node set.
C7_TagFilterFormat ==
    (last.op = "add_filter" /\ last.field = "tag") =>
        (last.err = NoErr <=> TagQueryOk(last.value))

\* C8: a node is marked passing exactly when it satisfies every filter of
\* the active filter list.
C8_Conjunction ==
    session = "up" =>
        \A u \in DOMAIN datasets : passes_filter[u] <=> SatisfiesAll(u)

\* C9: no indexed folder lies inside a folder indexed as a dataset, at any
\* depth; an index call on a folder inside a dataset fails with
\* InvalidNesting and writes no record; an index call on an unindexed folder
\* directly inside a collection, with no dataset above it, succeeds.
C9_DatasetNesting ==
    /\ \A p, q \in Dirs :
        (Inside(q, p) /\ typed.ix[p].type = "dataset")
            => typed.ix[q] = NoTypedIndex
    /\ (typed.last.op # "" /\ typed.last.in_dataset /\ ~typed.last.was_indexed)
        => (typed.last.err = "InvalidNesting" /\ ~typed.last.wrote)
    /\ (/\ typed.last.op # ""
        /\ typed.last.in_collection
        /\ ~typed.last.in_dataset
        /\ ~typed.last.was_indexed)
        => (typed.last.err = NoErr /\ typed.last.wrote)

\* a reference of data/ resolves to a validly indexed folder
ValidReference(reg, u) ==
    /\ reg[u] \in Dirs
    /\ index[reg[u]] # NoIndex
    /\ index[reg[u]].uuid = u

\* C10: building completes without raising whatever data/ holds; the
\* references that do not resolve to an indexed folder are dropped and the
\* working set holds exactly the nodes of the references that do.
C10_StalePruned ==
    last.op = "build" =>
        /\ last.err = NoErr
        /\ \A u \in DOMAIN registry : ValidReference(registry, u)
        /\ DOMAIN datasets = DOMAIN registry

\* ------------------------------------------------------------------------
\* C11: once a folder holds an index record, no operation (attributes, tags,
\* setup_dataset, parameters, saved sets, filters, queries, index attempts,
\* a new build) changes the uuid or the indexed_at stored in the record.
C11_IdentityImmutable ==
    [][\A p \in Dirs :
        index[p] # NoIndex =>
            /\ index'[p].uuid = index[p].uuid
            /\ index'[p].indexed_at = index[p].indexed_at]_vars

\* setup_dataset has rewritten the record of the indexed folder /x/c
C11_Witness ==
    /\ last.op = "setup_dataset"
    /\ last.err = NoErr
    /\ last.indexed
    /\ index[PathXC].setup_at # 0
    /\ index[PathXC].tool = NameT
    /\ index[PathXC].uuid = 4

\* ------------------------------------------------------------------------
\* C12: a write of a folder's index record never stores the derived fields
\* path, parent and children; the record on disk holds identity, human
\* metadata, tags and asset attachments only.
C12_DerivedNotStored ==
    [][\A p \in Dirs :
        index'[p] # index[p] =>
            /\ ~index'[p].derived
            /\ index'[p].path = NoPath
            /\ index'[p].children = {}
            /\ index'[p].parent = NoUuid]_vars

\* ------------------------------------------------------------------------
\* C13: a folder without an index record gets one only through the index
\* operation on it; attribute and tag changes, setup_dataset, parameter
\* operations and queries never create an index record.
C13_OnlyIndexCreates ==
    [][\A p \in Dirs :
        index[p] = NoIndex /\ index'[p] # NoIndex =>
            last'.op = "index_folder" /\ last'.path = p]_vars

\* the uuid of the folder p is also the uuid of another folder, which data/
\* refers to
Collides(p) ==
    /\ index[p] # NoIndex
    /\ index[p].uuid \in DOMAIN registry
    /\ registry[index[p].uuid] \in Dirs \ {p}
    /\ index[registry[index[p].uuid]].uuid = index[p].uuid

\* ------------------------------------------------------------------------
\* C14: the index operation on a folder whose record carries the uuid of
\* another, registered folder fails and leaves the reference in data/ to
\* that folder; a build that comes across such a folder fails, it does not
\* leave one of the two nodes out of the working set.
C14_CollisionFatal ==
    [][/\ \A p \in Dirs :
            Did("index_folder", p) /\ Collides(p) =>
                /\ last'.err # NoErr
                /\ registry'[index[p].uuid] = registry[index[p].uuid]
       /\ (last'.op = "build" /\ steps' = steps + 1
            /\ \E p \in Dirs : Collides(p) /\ Dirname(p) \in Dirs
                                /\ index[Dirname(p)].uuid \in DOMAIN registry)
                => last'.err # NoErr]_vars

\* the operation that just ran wrote the index record of its folder
\* (delete_tag writes when the record holds the key)
Wrote(p) ==
    /\ steps' = steps + 1
    /\ last'.path = p
    /\ last'.err = NoErr
    /\ \/ last'.op \in {"change_name", "change_description", "update_tag",
                        "setup_dataset"}
       \/ last'.op = "delete_tag" /\ \E t \in index[p].tags : t[1] = last'.value

\* ------------------------------------------------------------------------
\* C15: after set_attribute, set_tag or a delete_tag that wrote, reading
\* index.json of the folder gives a record equal on every field to the
\* record in memory that write_index(overwrite=True) wrote.
C15_IndexRoundTrip ==
    [][\A p \in Dirs :
        Wrote(p) =>
            /\ index'[p] # NoIndex
            /\ index'[p].uuid \in DOMAIN datasets'
            /\ index'[p] = datasets'[index'[p].uuid]]_vars

\* a name with a backslash was written to /x/c and read back
C15_Witness ==
    /\ last.op = "change_name"
    /\ last.err = NoErr
    /\ last.path = PathXC
    /\ index[PathXC].name = <<"\\", "b">>
    /\ index[PathXC].tags # {}
    /\ datasets[index[PathXC].uuid] = index[PathXC]

\* the number of values supplied to the menu (a value that is no list
\* counts as one)
Supplied == Len(menu.supplied.items)

\* ------------------------------------------------------------------------
\* C16: with a number N as nargs, a supplied value is approved exactly when
\* it holds N elements; with nargs "*" or "?" any number of supplied values
\* is approved, and so is no value unless the argument is required and has
\* no default either.
C16_Arity ==
    menu.validated =>
        /\ menu.err = NoErr
        /\ (menu.nargs.int /\ ~menu.supplied.none =>
                (menu.approved <=> Supplied = menu.nargs.n))
        /\ (menu.nargs \in {NargsSym("*"), NargsSym("?")}
                /\ ~(menu.required /\ menu.supplied.none /\ menu.default.none)
                    => menu.approved)

\* two values were supplied where nargs is 2, and approved
C16_Witness ==
    /\ menu.validated
    /\ menu.nargs = NargsInt(2)
    /\ menu.supplied = Values(2)
    /\ menu.approved

\* the argument a gets no value from kwargs and declares no default
Missing(a, kwargs) == a.key \notin DOMAIN kwargs /\ a.default.none

\* the argument a gets its default: no value in kwargs, a default declared
Defaulted(a, kwargs) == a.key \notin DOMAIN kwargs /\ ~a.default.none

\* ------------------------------------------------------------------------
\* C17: set_tool_params / set_launcher_params on a folder whose asset is
\* set up report a required argument as missing exactly when no value is
\* supplied for it and its schema declares no default; a required argument
\* with a default and no supplied value takes the default in the parameter
\* set that is written.
C17_RequiredAfterDefault ==
    [][\A p \in Dirs, k \in AssetTypes :
        (/\ Did("set_params", p)
         /\ result'.kind = k
         /\ index[p][k] # NoText
         /\ assets[p][k].config.present)
        =>
            /\ last'.err = "MustProvide" <=>
                \E i \in 1..Len(assets[p][k].config.args) :
                    /\ assets[p][k].config.args[i].required
                    /\ Missing(assets[p][k].config.args[i], result'.kwargs)
            /\ last'.err = NoErr =>
                \A i \in 1..Len(assets[p][k].config.args) :
                    (/\ assets[p][k].config.args[i].required
                     /\ Defaulted(assets[p][k].config.args[i], result'.kwargs))
                    => /\ assets'[p][k].params.exists
                       /\ assets[p][k].config.args[i].key
                            \in DOMAIN assets'[p][k].params.map
                       /\ assets'[p][k].params.map[
                                assets[p][k].config.args[i].key]
                            = param_text(assets[p][k].config.args[i],
                                         assets[p][k].config.args[i].default)]_vars

\* the file of the saved set (kind, asset, name)
SavedKey(k, a, n) == <<k, LastPart(a), n \o Suffix>>

\* the step changes at most the saved set under the key
OnlyKey(key) ==
    /\ DOMAIN saved' \subseteq DOMAIN saved \cup {key}
    /\ \A x \in DOMAIN saved \ {key} : x \in DOMAIN saved' /\ saved'[x] = saved[x]

\* a step of the operation `name`
Op(name) == steps' = steps + 1 /\ last'.op = name

\* ------------------------------------------------------------------------
\* C18: the saved sets form a map keyed by (kind, asset short name, saved
\* name). A successful save puts the dataset's parameters under its key and
\* changes no other key; a save on a listed name without overwrite fails; a
\* failed operation changes nothing; load and delete of a name that is not
\* listed fail; load of a listed name returns the stored set; delete removes
\* its key alone; list returns the names of the keys; no other operation
\* changes a saved set.
C18_SavedSetsMap ==
    [][/\ Op("save_params") =>
            /\ last'.err = NoErr =>
                /\ OnlyKey(SavedKey(result'.kind,
                                    index[last'.path][result'.kind],
                                    result'.name))
                /\ SavedKey(result'.kind, index[last'.path][result'.kind],
                            result'.name) \in DOMAIN saved'
                /\ saved'[SavedKey(result'.kind,
                                   index[last'.path][result'.kind],
                                   result'.name)] = result'.params
                /\ result'.params.exists
            /\ result'.listed /\ ~result'.overwrite => last'.err # NoErr
            /\ last'.err # NoErr => saved' = saved
       /\ Op("delete_params") =>
            /\ last'.err = NoErr <=> result'.listed
            /\ last'.err # NoErr => saved' = saved
            /\ last'.err = NoErr =>
                /\ OnlyKey(SavedKey(result'.kind, result'.tool, result'.name))
                /\ SavedKey(result'.kind, result'.tool, result'.name)
                        \notin DOMAIN saved'
       /\ Op("read_params") =>
            /\ last'.err = NoErr <=> result'.listed
            /\ last'.err = NoErr =>
                result'.params =
                    saved[SavedKey(result'.kind, result'.tool, result'.name)]
       /\ Op("list_params") =>
            \A n \in SavedNames :
                n \in result'.names <=>
                    SavedKey(result'.kind, result'.tool, n) \in DOMAIN saved
       /\ ~(Op("save_params") \/ Op("delete_params")) => saved' = saved]_vars

\* the set n of the tool t was replaced by the parameters a="v w" that the
\* dataset now holds
C18_Witness ==
    /\ last.op = "save_params"
    /\ last.err = NoErr
    /\ result.listed
    /\ result.overwrite
    /\ SavedKey("tool", NameT, <<"n">>) \in DOMAIN saved
    /\ saved[SavedKey("tool", NameT, <<"n">>)] =
            Params(("a" :> <<"v", " ", "w">>))

\* the line of the env script that exports the value of the argument a
ExportLine(a, v) == <<"export ", a.wb_env, "='">> \o param_text(a, v) \o <<"'">>

\* ------------------------------------------------------------------------
\* C19: set_tool_params / set_launcher_params on a folder that holds a
\* params.json or an env script of the asset fail unless overwrite is set,
\* and a failed call leaves the params.json and the env script that existed
\* as they were; a call with overwrite that succeeds leaves both files with
\* the new values.
C19_OverwriteNeeded ==
    [][\A p \in Dirs, k \in AssetTypes :
        Did("set_params", p) /\ result'.kind = k =>
            /\ (assets[p][k].params.exists \/ assets[p][k].env.exists)
                    /\ ~result'.overwrite
                => last'.err # NoErr
            /\ last'.err # NoErr =>
                /\ assets[p][k].params.exists =>
                        assets'[p][k].params = assets[p][k].params
                /\ assets[p][k].env.exists =>
                        assets'[p][k].env = assets[p][k].env
            /\ last'.err = NoErr /\ result'.overwrite =>
                /\ assets'[p][k].params.exists
                /\ assets'[p][k].env.exists
                /\ \A i \in 1..Len(assets[p][k].config.args) :
                    assets[p][k].config.args[i].key \in DOMAIN result'.kwargs =>
                        /\ assets[p][k].config.args[i].key
                                \in DOMAIN assets'[p][k].params.map
                        /\ assets'[p][k].params.map[
                                    assets[p][k].config.args[i].key]
                                = param_text(assets[p][k].config.args[i],
                                    result'.kwargs[
                                        assets[p][k].config.args[i].key])
                        /\ \E j \in 1..Len(assets'[p][k].env.lines) :
                            assets'[p][k].env.lines[j] =
                                ExportLine(assets[p][k].config.args[i],
                                    result'.kwargs[
                                        assets[p][k].config.args[i].key])]_vars

\* the parameters a=v and the env script of the tool of /x/c were replaced
\* by a="v w"
C19_Witness ==
    /\ last.op = "set_params"
    /\ last.err = NoErr
    /\ result.overwrite
    /\ result.kind = "tool"
    /\ assets[PathXC].tool.params = Params(("a" :> <<"v", " ", "w">>))
    /\ assets[PathXC].tool.env.lines # SetUpAssets[PathXC].tool.env.lines

\* ------------------------------------------------------------------------
\* C20: listing the assets of a kind returns exactly the asset folders that
\* hold both config.json and run.sh, and an asset folder missing config.json,
\* run.sh or both never makes the scan of the catalog raise.
C20_IncompleteOmitted ==
    last.op = "list_assets" =>
        /\ last.err = NoErr
        /\ result.names =
            UNION {{r \o <<"/">> \o n :
                        n \in {m \in DOMAIN repos[r][result.kind] :
                                /\ repos[r][result.kind][m].config.present
                                /\ repos[r][result.kind][m].script}} :
                   r \in DOMAIN repos}

\* ------------------------------------------------------------------------
\* C21: registering data/ itself adds no reference, registering a folder
\* that is registered already (by its resolved path) adds no reference; so
\* data/ never holds two references to one folder, nor one to data/.
C21_RegistrationGuard ==
    [][/\ \A u \in DOMAIN registry' : registry'[u] # PathData
       /\ \A u, v \in DOMAIN registry' :
            registry'[u] = registry'[v] => u = v
       /\ \A p \in RegisterPaths :
            (/\ Did("index_folder", p)
             /\ \/ abs_path(symlinks, p) = PathData
                \/ \E u \in DOMAIN registry :
                        registry[u] = abs_path(symlinks, p))
            => DOMAIN registry' = DOMAIN registry]_vars

\* the name that the claim gives to a new reference to a folder called
\* `name`: the first of name, name_1, name_2, ... that is no entry of data/
RECURSIVE FirstUnused(_, _, _)
FirstUnused(name, used, n) ==
    IF n = 0 /\ name \notin used
    THEN name
    ELSE IF n > 0 /\ Suffixed(name, n) \notin used
    THEN Suffixed(name, n)
    ELSE FirstUnused(name, used, n + 1)

\* ------------------------------------------------------------------------
\* C22: a new link to a folder is made inside data/ under the first unused
\* name among name, name_1, name_2, ...; no link that exists is replaced,
\* and every linked folder is the target of a link of data/.
C22_CollisionSuffix ==
    [][/\ \A n \in DOMAIN typed.home :
            n \in DOMAIN typed'.home /\ typed'.home[n] = typed.home[n]
       /\ \A n \in (DOMAIN typed'.home) \ (DOMAIN typed.home) :
            n = FirstUnused(Basename(typed'.home[n]), DOMAIN typed.home, 0)
       /\ DOMAIN typed'.top = {}
       /\ Targets(typed'.top) \subseteq Targets(typed'.home)]_vars

\* the number of values of a parameter
Count(v) == IF v.list THEN Len(v.items) ELSE 1

\* the rules of the schema that a set of parameters breaks: a required
\* argument without a value, an argument with a number of values other
\* than its nargs
Violations(args, set) ==
    {<<args[i].key, "missing">> :
        i \in {j \in 1..Len(args) :
                args[j].required /\ Get(set, args[j].key, NoValue).none}}
    \cup
    {<<args[i].key, "elements">> :
        i \in {j \in 1..Len(args) :
                /\ "nargs" \in DOMAIN args[j]
                /\ args[j].nargs.int
                /\ ~Get(set, args[j].key, NoValue).none
                /\ Count(Get(set, args[j].key, NoValue)) # args[j].nargs.n}}

\* ------------------------------------------------------------------------
\* C23: a set of parameters that breaks rules of the schema is reported
\* with every rule it breaks and marked invalid, and neither params.json nor
\* the env script is written for it.
C23_FailuresCollected ==
    [][\A p \in Dirs, k \in AssetTypes :
        (/\ Did("set_params", p) \/ Did("params_menu", p)
         /\ result'.kind = k
         /\ result'.setup
         /\ Violations(assets[p][k].config.args, result'.kwargs) # {})
        => /\ result'.reported =
                Violations(assets[p][k].config.args, result'.kwargs)
           /\ ~result'.approved
           /\ assets'[p][k].params = assets[p][k].params
           /\ assets'[p][k].env = assets[p][k].env]_vars

\* ------------------------------------------------------------------------
\* Parent and children in the working set

\* m is listed among the children of n exactly when the parent of m is n
ParentChildrenAgree(ds) ==
    \A n \in DOMAIN ds, m \in DOMAIN ds :
        (m \in ds[n].children) <=> (ds[m].parent = n)

\* C24: after a build and after any later Datasets.add (index_folder adds
\* the folder to the working set), for all nodes n and m of the working
\* set m.id is in n.children if and only if m.parent = n.id, whatever the
\* order in which the entries of the registry were added; so no node is
\* listed as a child by two nodes.
C24_ParentChildrenAgree ==
    [][(/\ steps' = steps + 1
        /\ last'.op \in {"build", "index_folder"}
        /\ last'.err = NoErr)
       => ParentChildrenAgree(datasets')]_vars

\* ------------------------------------------------------------------------
\* C25: the record written for a set of parameters that satisfies the
\* schema maps each argument to the value that was given (a scalar stays a
\* scalar, a list stays the same list), so the record read back satisfies
\* the schema too (an nargs=2 argument still has two values).
C25_ValuesSurvive ==
    [][\A p \in Dirs, k \in AssetTypes :
        (/\ Did("set_params", p) \/ Did("params_menu", p)
         /\ result'.kind = k
         /\ result'.setup
         /\ result'.approved
         /\ last'.err = NoErr
         /\ Violations(assets[p][k].config.args, result'.kwargs) = {})
        => /\ \A a \in DOMAIN result'.kwargs :
                ~result'.kwargs[a].none =>
                    Get(read_asset_params([assets |-> assets'], p, k),
                        a, NoValue) = result'.kwargs[a]
           /\ Violations(assets[p][k].config.args,
                         read_asset_params([assets |-> assets'], p, k)) = {}]_vars

\* ------------------------------------------------------------------------
\* Two processes index the same folder

\* both processes found no index record when they looked
BothPassed == \A i \in Procs : racers.fresh[i]

\* C26: when two processes run the index operation on a folder that is not
\* indexed and both pass the check before either writes, the folder ends
\* with exactly one well-formed index record (the record that one of them
\* made), and the next build holds exactly one node for the folder, whose
\* id is the id of that record, and leaves no reference to the folder in
\* the registry under another id.
C26_RaceOneRecord ==
    (RaceEnded /\ BothPassed) =>
        /\ \E i \in Procs :
            /\ racers.pc[i] = "done"
            /\ index[racers.path] = json_load(json_dump(racers.ds[i].index))
            /\ index[racers.path].uuid # NoUuid
        /\ (last.op = "build" /\ last.err = NoErr) =>
            /\ {u \in DOMAIN datasets : datasets[u].path = racers.path}
                    = {index[racers.path].uuid}
            /\ \A u \in DOMAIN registry :
                    registry[u] = racers.path => u = index[racers.path].uuid

\* both processes wrote a record and a reference, and a build followed
C26_Witness ==
    /\ BothPassed
    /\ \A i \in Procs : racers.pc[i] = "done"
    /\ last.op = "build"
    /\ last.err = NoErr

\* ------------------------------------------------------------------------
\* Queries and the state of the session

\* what Datasets.filtered(incl_anc) returns: the kept dicts
QueryResult(w, incl_anc) ==
    [u \in get_filtered_uuids(w, incl_anc) |->
        prune(w, get_filtered_uuids(w, incl_anc)).datasets[u]]

\* the state that Datasets.filtered(incl_anc) leaves
AfterFiltered(w, incl_anc) == prune(w, get_filtered_uuids(w, incl_anc))

\* the queries of w return, none of them walks a chain of parents for ever
Returns(w) == ~never_returns(w, TRUE)

\* C27: queries are read-only and remove_filter undoes add_filter: for a
\* filter f that is not active, add_filter(f); filtered(); remove_filter(f)
\* leaves a state in which filtered() returns what it returned before
\* add_filter, the children list of every node included, and a call of
\* filtered() never changes what a later query returns.
C27_QueriesReadOnly ==
    (session = "up" /\ ~hung /\ Returns(World)) =>
        /\ \A f \in FilterInputs, a \in BOOLEAN, b \in BOOLEAN :
            (/\ \A i \in 1..Len(filters) : filters[i] # f
             /\ add_filter(World, f).err = NoErr
             /\ Returns(add_filter(World, f)))
            => QueryResult(remove_filter(
                            AfterFiltered(add_filter(World, f), a), f), b)
                    = QueryResult(World, b)
        /\ \A a \in BOOLEAN, b \in BOOLEAN :
            QueryResult(AfterFiltered(World, a), b) = QueryResult(World, b)

\* ------------------------------------------------------------------------
\* C28: in one session with active filters, after any interleaving of
\* change_name, change_description, update_tag and delete_tag with
\* add_filter and remove_filter, filtered(incl_anc=False) returns the nodes
\* whose current name, description and tags satisfy every active filter.
C28_FiltersFollowChanges ==
    (/\ last.op = "filtered"
     /\ ~last.incl_anc
     /\ last.err = NoErr
     /\ ~hung
     /\ \A i \in 1..Len(filters) :
            filters[i].field = "tag" => TagQueryOk(filters[i].value))
    => filtered_uuids = {u \in DOMAIN datasets : SatisfiesAll(u)}

\* ------------------------------------------------------------------------
\* C29: when add_filter raises for a malformed tag value, the active filter
\* list and the pass mark of every node are what they were before the call.
C29_RejectedFilterNoChange ==
    [][(/\ steps' = steps + 1
        /\ last'.op = "add_filter"
        /\ last'.err # NoErr)
       => (filters' = filters /\ passes_filter' = passes_filter)]_vars

\* ------------------------------------------------------------------------
\* C30: in every working set that a build of any registry and layout of
\* folders gives (folders that reach each other through links included) the
\* parent relation is acyclic, so the walks along the chain of parents in
\* the queries end: no query is left inside a loop that never returns.
C30_QueriesTerminate ==
    /\ ~hung
    /\ session = "up" =>
        \A u \in DOMAIN datasets : ~loops(datasets, u, {})

====
